---- MODULE Spec2Model ----
(***************************************************************************)
(* Model of the ingestion -> classification -> windowing core of the robot *)
(* log analyzer: SmartContextEngine (agents/context_engine.py) with its    *)
(* asyncio lock, its background flush loop and its callbacks, and the part *)
(* of ErrorDetector (agents/error_detector.py) that decides is_error.      *)
(* DetectorSpec is ErrorDetector.detect with its statistics and callback,  *)
(* SnapshotSpec a caller holding the lists the engine returns, TailerSpec  *)
(* the LogIngestor (agents/log_ingestor.py) reading a growing file from    *)
(* the main thread and the watchdog thread, DispatchSpec the queue between *)
(* the ingestor's callback and the pipeline (main.py), ParserSpec the      *)
(* ingestor's line parser, AnalyzerSpec the Analyzer (agents/analyzer.py)  *)
(* and MonitorSpec the startup of the application with the two monitoring  *)
(* endpoints (main.py), each of which may start the ingestor.              *)
(*                                                                         *)
(* Scheduling model: asyncio tasks on one event loop.  A task runs without *)
(* interruption from one suspension point to the next, so each action is   *)
(* the code between two suspension points.  The suspension points are: a   *)
(* lock acquire that cannot take the fast path, asyncio.sleep in the flush *)
(* loop, and the awaited on_error_context callback.                        *)
(***************************************************************************)
EXTENDS Integers, Sequences, FiniteSets, TLC

(***************************************************************************)
(* Bounds of the model.                                                    *)
(***************************************************************************)
WindowSize == 2        \* window_size given to the constructor
ErrorWindowSize == 1   \* error_window_size given to the constructor
TimeoutSec == 1        \* timeout_sec given to the constructor, in clock ticks
MaxAdds == 3           \* add() calls in one behaviour
MaxCalls == 1          \* calls of the client task in one behaviour
MaxDetects == 4        \* detect() calls between two reset_stats()
MaxLines == 2          \* lines the writer appends to the watched file
MaxEntries == 3        \* entries the ingestor passes to its callback
MaxParsed == 2         \* lines the ingestor is given to parse
MaxWatchers == 2       \* LogIngestor.start() calls in one behaviour
MaxAnalyses == 2       \* analyze() calls of one Analyzer

SleepInterval == 1     \* asyncio.sleep(5) of the loop: one clock tick is 5 s

Adders == {"a1", "a2"}       \* tasks calling add()
Clients == {"c1"}            \* task calling the other public operations
LoopOrder == << "l1", "l2" >>   \* _flush_loop tasks, in the order start() creates them
Loops == {LoopOrder[i] : i \in DOMAIN LoopOrder}
FirstLoop == {LoopOrder[1]}  \* the task of the first start()
Observers == {"o1"}          \* task that keeps the lists get_context() returns
Tasks == Adders \cup Clients \cup Loops \cup Observers
NoTask == "none"

Min(a, b) == IF a <= b THEN a ELSE b
Max(a, b) == IF a >= b THEN a ELSE b

(***************************************************************************)
(* Text and patterns.  A pattern of the rule tables is a list of literal   *)
(* pieces separated by ".*"; it is searched case-insensitively.            *)
(***************************************************************************)
UpperToLower ==
    [c \in {"A","B","C","D","E","F","G","H","I","J","K","L","M",
            "N","O","P","Q","R","S","T","U","V","W","X","Y","Z"} |->
       CASE c = "A" -> "a" [] c = "B" -> "b" [] c = "C" -> "c" [] c = "D" -> "d"
         [] c = "E" -> "e" [] c = "F" -> "f" [] c = "G" -> "g" [] c = "H" -> "h"
         [] c = "I" -> "i" [] c = "J" -> "j" [] c = "K" -> "k" [] c = "L" -> "l"
         [] c = "M" -> "m" [] c = "N" -> "n" [] c = "O" -> "o" [] c = "P" -> "p"
         [] c = "Q" -> "q" [] c = "R" -> "r" [] c = "S" -> "s" [] c = "T" -> "t"
         [] c = "U" -> "u" [] c = "V" -> "v" [] c = "W" -> "w" [] c = "X" -> "x"
         [] c = "Y" -> "y" [] c = "Z" -> "z"]

LowerToUpper ==
    [c \in {"a","b","c","d","e","f","g","h","i","j","k","l","m",
            "n","o","p","q","r","s","t","u","v","w","x","y","z"} |->
       CHOOSE u \in DOMAIN UpperToLower : UpperToLower[u] = c]

RECURSIVE MapChars(_, _, _)
MapChars(s, f, i) ==
    IF i > Len(s) THEN ""
    ELSE LET c == SubSeq(s, i, i)
         IN (IF c \in DOMAIN f THEN f[c] ELSE c) \o MapChars(s, f, i + 1)

\* str.upper() and the case folding of re.IGNORECASE
Upper(s) == MapChars(s, LowerToUpper, 1)
Lower(s) == MapChars(s, UpperToLower, 1)

\* the first position >= from where the literal lit occurs in text, 0 if none
FindFrom(text, lit, from) ==
    LET hits == {i \in from..(Len(text) - Len(lit) + 1) :
                    SubSeq(text, i, i + Len(lit) - 1) = lit}
    IN IF hits = {} THEN 0 ELSE CHOOSE i \in hits : \A j \in hits : i <= j

RECURSIVE PiecesFrom(_, _, _, _)
PiecesFrom(text, pieces, k, from) ==
    IF k > Len(pieces) THEN TRUE
    ELSE LET at == FindFrom(text, pieces[k], from)
         IN at # 0 /\ PiecesFrom(text, pieces, k + 1, at + Len(pieces[k]))

\* re.compile(p, re.IGNORECASE).search(text) for p = piece1.*piece2...
PatternSearch(pieces, text) ==
    PiecesFrom(Lower(text), [k \in 1..Len(pieces) |-> Lower(pieces[k])], 1, 1)

(***************************************************************************)
(* Log entries the tasks add.                                              *)
(***************************************************************************)
LogEntries ==
    << [level |-> "INFO",  node |-> "/navigation", message |-> "Goal reached"],
       [level |-> "ERROR", node |-> "/move_base",  message |-> "Transform timeout"],
       [level |-> "INFO",  node |-> "/driver",     message |-> "Connection refused"] >>

EntryIds == DOMAIN LogEntries

\* the entries two concurrent tasks add: one that add() takes for an error
\* and one that it does not
TwoEntries == {i \in EntryIds : LogEntries[i].node \in {"/navigation", "/move_base"}}

\* LogEntry.is_error
EntryIsError(e) == Upper(e.level) \in {"ERROR", "FATAL", "CRITICAL"}

\* faulty variant of EntryIsWarning: an ERROR level counts as a warning
EntryIsWarningOrError(e) == Upper(e.level) \in {"WARN", "ERROR"}

\* LogEntry.is_warning
EntryIsWarning(e) == Upper(e.level) = "WARN"

(***************************************************************************)
(* ErrorDetector.                                                          *)
(***************************************************************************)
SEVERITY_RULES ==
    << [severity |-> "critical",
        patterns |-> << <<"FATAL">>, <<"CRITICAL">>, <<"emergency stop">>,
                        <<"emergency_stop">>, <<"power failure">>,
                        <<"hardware failure">>, <<"collision">>,
                        <<"safety", "violated">> >>],
       [severity |-> "high",
        patterns |-> << <<"ERROR">>, <<"Exception">>, <<"exception">>,
                        <<"failed">>, <<"Failed">>, <<"unable">>, <<"Unable">>,
                        <<"cannot">>, <<"Cannot">>, <<"timeout">>, <<"Timeout">>,
                        <<"refused">>, <<"Refused">> >>],
       [severity |-> "medium",
        patterns |-> << <<"WARN">>, <<"Warning">>, <<"warning">>,
                        <<"deprecated">>, <<"retry">>, <<"Retry">>,
                        <<"unstable">> >>],
       [severity |-> "low",
        patterns |-> << <<"DEBUG">>, <<"trace">>, <<"notice">> >>] >>

\* settings.ERROR_KEYWORDS, the error_keywords the application passes
ERROR_KEYWORDS ==
    << "ERROR", "FATAL", "CRITICAL", "Exception", "exception", "failed",
       "Failed", "timeout", "Timeout", "unable", "Unable", "cannot", "Cannot",
       "refused", "Refused" >>

\* faulty variant of DetectText: the level is left out of the text
DetectTextNoLevel(e) == e.node \o " " \o e.message

\* the text detect() matches against
DetectText(e) == e.level \o " " \o e.node \o " " \o e.message

AnyPattern(patterns, text) ==
    \E k \in 1..Len(patterns) : PatternSearch(patterns[k], text)

\* faulty variant of FirstTier: the tier tried last wins
LastTier(tiers) == CHOOSE i \in tiers : \A j \in tiers : i >= j

\* "for severity in [critical, high, medium, low]: ... return severity": of
\* the tiers with a matching pattern, the one tried first
FirstTier(tiers) == CHOOSE i \in tiers : \A j \in tiers : i <= j

\* faulty variant of LevelSeverity: the default of an unknown level is medium
LevelSeverityMedium(level) ==
    IF level \in {"FATAL", "CRITICAL"} THEN "critical"
    ELSE IF level = "ERROR" THEN "high"
    ELSE "medium"

\* _classify_severity, "Default based on log level"; level is upper-cased
LevelSeverity(level) ==
    IF level \in {"FATAL", "CRITICAL"} THEN "critical"
    ELSE IF level = "ERROR" THEN "high"
    ELSE IF level = "WARN" THEN "medium"
    ELSE "low"

\* ErrorDetector._classify_severity
ClassifySeverity(e, text) ==
    LET tiers == {i \in 1..Len(SEVERITY_RULES) :
                     AnyPattern(SEVERITY_RULES[i].patterns, text)}
    IN IF tiers # {}
       THEN SEVERITY_RULES[FirstTier(tiers)].severity
       ELSE LevelSeverity(Upper(e.level))

\* ErrorDetector.ERROR_TYPES, in the order of the dict
ERROR_TYPES ==
    << [error_type |-> "Transform Timeout",
        patterns |-> << <<"transform", "timeout">>, <<"lookup", "transform">>,
                        <<"can", "t", "lookup">>, <<"no", "transform">> >>],
       [error_type |-> "Planning Failure",
        patterns |-> << <<"plan", "fail">>, <<"plan", "path">>,
                        <<"no", "valid", "path">>, <<"goal", "unreachable">>,
                        <<"planning", "error">> >>],
       [error_type |-> "Sensor Timeout",
        patterns |-> << <<"sensor", "timeout">>, <<"laser", "timeout">>,
                        <<"camera", "timeout">>, <<"no", "data", "received">>,
                        <<"sensor", "not", "respond">>,
                        <<"laser", "not", "respond">> >>],
       [error_type |-> "Hardware Connection",
        patterns |-> << <<"connection", "refused">>, <<"unable", "connect">>,
                        <<"hardware", "disconnected">>,
                        <<"communication", "error">> >>],
       [error_type |-> "Joint Limit",
        patterns |-> << <<"joint", "limit">>, <<"limit", "exceeded">>,
                        <<"out", "of", "range">>, <<"position", "limit">> >>],
       [error_type |-> "Collision Detected",
        patterns |-> << <<"collision">>, <<"in", "collision">>,
                        <<"obstacle", "detected">>, <<"contact", "detected">> >>],
       [error_type |-> "Navigation Failure",
        patterns |-> << <<"navigation", "fail">>, <<"move_base", "fail">>,
                        <<"abort", "navigation">> >>],
       [error_type |-> "Controller Error",
        patterns |-> << <<"controller", "error">>, <<"control", "fail">>,
                        <<"tracking", "error">> >>],
       [error_type |-> "SLAM Error",
        patterns |-> << <<"slam", "error">>, <<"localization", "fail">>,
                        <<"amcl", "error">> >>] >>

\* the categories of ERROR_TYPES that have a pattern matching text
MatchingTypes(text) ==
    {i \in 1..Len(ERROR_TYPES) : AnyPattern(ERROR_TYPES[i].patterns, text)}

\* faulty variant of ClassifyErrorType: no sentinel when nothing matches
ClassifyErrorTypeOrNone(text) ==
    IF MatchingTypes(text) = {} THEN "None"
    ELSE ERROR_TYPES[CHOOSE i \in MatchingTypes(text) :
                        \A j \in MatchingTypes(text) : i <= j].error_type

\* faulty variant of ClassifyErrorType: the last matching category wins
ClassifyErrorTypeLast(text) ==
    IF MatchingTypes(text) = {} THEN "Unknown Error"
    ELSE ERROR_TYPES[CHOOSE i \in MatchingTypes(text) :
                        \A j \in MatchingTypes(text) : i >= j].error_type

\* ErrorDetector._classify_error_type
ClassifyErrorType(text) ==
    IF MatchingTypes(text) = {} THEN "Unknown Error"
    ELSE ERROR_TYPES[CHOOSE i \in MatchingTypes(text) :
                        \A j \in MatchingTypes(text) : i <= j].error_type

\* faulty variant of CheckPatterns: the custom keywords are not searched
CheckNoPatterns(text, kws) == FALSE

\* ErrorDetector._check_patterns over the custom keywords (re.escape: literals)
CheckPatterns(text, kws) ==
    \E k \in 1..Len(kws) : PatternSearch(<<kws[k]>>, text)

\* is_error as ErrorDetector.detect computes it
DetectIsError(e) ==
    LET text == DetectText(e)
    IN \/ EntryIsError(e)
       \/ ClassifySeverity(e, text) \in {"critical", "high"}
       \/ CheckPatterns(text, ERROR_KEYWORDS)

\* faulty variant of AddIsError: add() takes every entry for an error
AddAlwaysError == [i \in EntryIds |-> TRUE]

\* is_error of each entry of LogEntries, as add() and as detect() decide it
AddIsError == [i \in EntryIds |-> EntryIsError(LogEntries[i])]
DetectorIsError == [i \in EntryIds |-> DetectIsError(LogEntries[i])]

\* settings.WARNING_KEYWORDS, the warning_keywords the application passes
WARNING_KEYWORDS == << "WARN", "Warning", "warning", "deprecated" >>

\* the entries detect() is called with: those the engine is given, and more
DetectEntries ==
    LogEntries \o
    << [level |-> "WARN",  node |-> "/camera",  message |-> "Frame dropped"],
       [level |-> "DEBUG", node |-> "/planner", message |-> "Retry planning"],
       [level |-> "ERROR", node |-> "/nav",
        message |-> "Collision: plan failed, no transform"],
       [level |-> "ERROR", node |-> "/arm",     message |-> "Joint state published"],
       [level |-> "INFO",  node |-> "/lidar",   message |-> "Scan delayed"],
       [level |-> "WARN",  node |-> "/driver",  message |-> "Connection refused"],
       [level |-> "fatal", node |-> "/hw",      message |-> "Emergency stop"] >>

\* the characters re.escape puts a backslash before
SpecialChars ==
    {"(", ")", "[", "]", "{", "}", "?", "*", "+", "-", "|", "^", "$", "\\",
     ".", "&", "~", "#", " "}

\* re.escape(kw): pattern.pattern of a compiled custom keyword
ReEscape(kw) == MapChars(kw, [c \in SpecialChars |-> "\\" \o c], 1)

\* what _check_patterns appends to matched_keywords: pattern.pattern of
\* every custom pattern that matches
MatchedPatterns(text, kws) ==
    {ReEscape(kws[k]) : k \in {j \in 1..Len(kws) : PatternSearch(<<kws[j]>>, text)}}

\* the detector main.py constructs, with the keywords of the settings
AppKeywords ==
    [error_keywords |-> ERROR_KEYWORDS, warning_keywords |-> WARNING_KEYWORDS]

\* ErrorDetector(): "error_keywords or []", "warning_keywords or []"
NoKeywords == [error_keywords |-> << >>, warning_keywords |-> << >>]

\* settings whose keyword lists were overridden
OwnKeywords ==
    [error_keywords |-> << "dropped" >>, warning_keywords |-> << "scan delayed" >>]

DetectorConfigs == {AppKeywords, NoKeywords, OwnKeywords}

\* is_warning as ErrorDetector.detect computes it
DetectIsWarning(e) ==
    LET text == DetectText(e)
    IN \/ EntryIsWarning(e)
       \/ ClassifySeverity(e, text) = "medium"
       \/ CheckPatterns(text, WARNING_KEYWORDS)

\* the DetectionResult detect() builds in a detector with the keywords kws.
\* "a or b or c" evaluates c only when
\* a and b are false, so a list of custom patterns is searched, and its
\* matches are appended to matched_keywords, only when level and severity
\* did not decide; list(set(...)) keeps each keyword once
Classify(kws, e) ==
    LET text == DetectText(e)
        severity == ClassifySeverity(e, text)
        errors_searched == ~(EntryIsError(e) \/ severity \in {"critical", "high"})
        warnings_searched == ~(EntryIsWarning(e) \/ severity = "medium")
        is_error == \/ EntryIsError(e)
                    \/ severity \in {"critical", "high"}
                    \/ CheckPatterns(text, kws.error_keywords)
        is_warning == \/ EntryIsWarning(e)
                      \/ severity = "medium"
                      \/ CheckPatterns(text, kws.warning_keywords)
    IN [is_error |-> is_error,
        is_warning |-> is_warning,
        severity |-> severity,
        matched_keywords |->
            (IF errors_searched
             THEN MatchedPatterns(text, kws.error_keywords) ELSE {})
            \cup (IF warnings_searched
                  THEN MatchedPatterns(text, kws.warning_keywords) ELSE {})
            \cup (IF Upper(e.level) \in {"ERROR", "FATAL", "CRITICAL"}
                  THEN {e.level} ELSE {}),
        error_type |-> IF is_error THEN ClassifyErrorType(text) ELSE "None"]

\* the result of each entry of DetectEntries, for each detector
DetectionResults ==
    {[keywords |-> kws, entry |-> i, result |-> Classify(kws, DetectEntries[i])] :
        kws \in DetectorConfigs, i \in DOMAIN DetectEntries}

\* the result of entry i in a detector with the keywords kws
ResultOf(kws, i) ==
    (CHOOSE t \in DetectionResults : t.keywords = kws /\ t.entry = i).result

\* self._stats as __init__ and reset_stats set it
NoStats == [total_checked |-> 0, errors_detected |-> 0, warnings_detected |-> 0]

\* no detect() call yet
NoDetection ==
    [entry |-> 0,
     result |-> [is_error |-> FALSE, is_warning |-> FALSE, severity |-> "low",
                 matched_keywords |-> {}, error_type |-> "None"],
     returned |-> FALSE, exc |-> "none", calls |-> 0]

(***************************************************************************)
(* LogIngestor._parse_ros_log.  Both regular expressions are matched from  *)
(* the first character of the line (re.match).  Every repetition in them   *)
(* is followed by a character outside its class, so a match takes each run *)
(* whole; the one exception is the blanks before the message, which give   *)
(* back the character that ".+" needs.                                     *)
(***************************************************************************)
Digits == {"0", "1", "2", "3", "4", "5", "6", "7", "8", "9"}
Blanks == {" ", "\t", "\n"}
WordChars ==
    Digits \cup DOMAIN UpperToLower \cup DOMAIN LowerToUpper \cup {"_"}

\* the character at position i, "" outside the string
CharAt(s, i) == IF i >= 1 /\ i <= Len(s) THEN SubSeq(s, i, i) ELSE ""

\* a character class: the characters listed, or all the others
DigitClass == [chars |-> Digits, negated |-> FALSE]            \* \d
WordClass == [chars |-> WordChars, negated |-> FALSE]          \* \w
SpaceClass == [chars |-> Blanks, negated |-> FALSE]            \* \s
NotBracketClass == [chars |-> {"]"}, negated |-> TRUE]         \* [^\]]
AnyCharClass == [chars |-> {"\n"}, negated |-> TRUE]           \* .

InClass(c, cls) == c # "" /\ ((c \in cls.chars) # cls.negated)

IsDigit(c) == InClass(c, DigitClass)
IsSpace(c) == InClass(c, SpaceClass)

\* the first position >= i whose character is outside the class
RunEnd(s, i, cls) ==
    IF i > Len(s) THEN i
    ELSE LET stops == {j \in i..(Len(s) + 1) : ~InClass(CharAt(s, j), cls)}
         IN  CHOOSE j \in stops : \A k \in stops : j <= k

\* \d{n} at position i
DigitsAt(s, i, n) == \A k \in i..(i + n - 1) : IsDigit(CharAt(s, k))

\* the group a pattern's optional part leaves when it took no part: None
NoGroup == ""

NoMatch == [matched |-> FALSE, groups |-> << >>]

\* "\s*:\s*(.+)" from position i
MessageFrom(s, i) ==
    LET colon == RunEnd(s, i, SpaceClass)
        blank_end == RunEnd(s, colon + 1, SpaceClass)
        starts == {q \in (colon + 1)..blank_end : InClass(CharAt(s, q), AnyCharClass)}
        start == CHOOSE q \in starts : \A r \in starts : r <= q
    IN  IF CharAt(s, colon) = ":" /\ starts # {}
        THEN [matched |-> TRUE,
              text |-> SubSeq(s, start, RunEnd(s, start, AnyCharClass) - 1)]
        ELSE [matched |-> FALSE, text |-> ""]

\* ROS_LOG_PATTERN.match(line): the groups level, timestamp, node, message
RosLogPattern(s) ==
    LET w == RunEnd(s, 2, WordClass)             \* the "]" after (\w+)
        b == RunEnd(s, w + 1, SpaceClass)        \* the "[" after \s+
        d == b + 1                            \* the year
        h == RunEnd(s, d + 10, SpaceClass)       \* the hour, after \s+
        f == RunEnd(s, h + 9, DigitClass)        \* the "]" after \.\d+
        g == RunEnd(s, f + 1, SpaceClass)        \* the "[" of the node group
        n == RunEnd(s, g + 1, NotBracketClass)     \* the "]" of the node group
        has_node == /\ g > f + 1 /\ CharAt(s, g) = "["
                    /\ n > g + 1 /\ CharAt(s, n) = "]"
        rest == MessageFrom(s, IF has_node THEN n + 1 ELSE f + 1)
        matched ==
            /\ CharAt(s, 1) = "[" /\ w > 2 /\ CharAt(s, w) = "]"
            /\ b > w + 1 /\ CharAt(s, b) = "["
            /\ DigitsAt(s, d, 4) /\ CharAt(s, d + 4) = "-"
            /\ DigitsAt(s, d + 5, 2) /\ CharAt(s, d + 7) = "-"
            /\ DigitsAt(s, d + 8, 2) /\ h > d + 10
            /\ DigitsAt(s, h, 2) /\ CharAt(s, h + 2) = ":"
            /\ DigitsAt(s, h + 3, 2) /\ CharAt(s, h + 5) = ":"
            /\ DigitsAt(s, h + 6, 2) /\ CharAt(s, h + 8) = "."
            /\ f > h + 9 /\ CharAt(s, f) = "]"
            /\ rest.matched
    IN  IF matched
        THEN [matched |-> TRUE,
              groups |-> << SubSeq(s, 2, w - 1), SubSeq(s, d, f - 1),
                            IF has_node THEN SubSeq(s, g + 1, n - 1)
                            ELSE NoGroup,
                            rest.text >>]
        ELSE NoMatch

\* ROS_SIMPLE_PATTERN.match(line): the groups level, node_or_time, message
RosSimplePattern(s) ==
    LET w == RunEnd(s, 2, WordClass)             \* the "]" after (\w+)
        b == RunEnd(s, w + 1, SpaceClass)        \* the "[" after \s*
        n == RunEnd(s, b + 1, NotBracketClass)     \* the "]" after ([^\]]+)
        rest == MessageFrom(s, n + 1)
        matched ==
            /\ CharAt(s, 1) = "[" /\ w > 2 /\ CharAt(s, w) = "]"
            /\ CharAt(s, b) = "[" /\ n > b + 1 /\ CharAt(s, n) = "]"
            /\ rest.matched
    IN  IF matched
        THEN [matched |-> TRUE,
              groups |-> << SubSeq(s, 2, w - 1), SubSeq(s, b + 1, n - 1),
                            rest.text >>]
        ELSE NoMatch

\* int() of a string of digits
DigitValue(c) == CHOOSE v \in 0..9 : SubSeq("0123456789", v + 1, v + 1) = c

RECURSIVE Number(_)
Number(s) ==
    IF s = "" THEN 0
    ELSE 10 * Number(SubSeq(s, 1, Len(s) - 1)) + DigitValue(CharAt(s, Len(s)))

\* a datetime; datetime.now() is the value whose field now is TRUE
Datetime(y, mo, d, h, mi, sec, us) ==
    [now |-> FALSE, year |-> y, month |-> mo, day |-> d, hour |-> h,
     minute |-> mi, second |-> sec, microsecond |-> us]

DatetimeNow ==
    [now |-> TRUE, year |-> 0, month |-> 0, day |-> 0, hour |-> 0,
     minute |-> 0, second |-> 0, microsecond |-> 0]

DaysInMonth(y, mo) ==
    IF mo = 2
    THEN (IF y % 4 = 0 /\ (y % 100 # 0 \/ y % 400 = 0) THEN 29 ELSE 28)
    ELSE IF mo \in {4, 6, 9, 11} THEN 30 ELSE 31

\* the position after a %m, %d, %H, %M or %S field at position i: two
\* digits if they make a number of lo..hi, else one digit of lo..hi, else i
FieldEnd(s, i, lo, hi) ==
    IF DigitsAt(s, i, 2) /\ Number(SubSeq(s, i, i + 1)) \in lo..hi THEN i + 2
    ELSE IF IsDigit(CharAt(s, i)) /\ Number(CharAt(s, i)) \in lo..hi
    THEN i + 1
    ELSE i

\* the position after a %f field at position i: one to six digits
FractionEnd(s, i) == Min(RunEnd(s, i, DigitClass), i + 6)

\* the microseconds a %f field stands for: the digits padded to six
Microseconds(digits) ==
    Number(digits) * (CASE Len(digits) = 1 -> 100000 [] Len(digits) = 2 -> 10000
                        [] Len(digits) = 3 -> 1000   [] Len(digits) = 4 -> 100
                        [] Len(digits) = 5 -> 10     [] OTHER -> 1)

\* the datetime constructor: the datetime, or its ValueError
NewDatetime(y, mo, d, h, mi, sec, us) ==
    IF y >= 1 /\ d <= DaysInMonth(y, mo) /\ sec <= 59
    THEN [raised |-> "none", value |-> Datetime(y, mo, d, h, mi, sec, us)]
    ELSE [raised |-> "ValueError", value |-> DatetimeNow]

\* datetime.strptime(s, "%Y-%m-%d %H:%M:%S.%f") when fraction, and
\* datetime.strptime(s, "%Y-%m-%d %H:%M:%S") otherwise: the datetime, or the
\* ValueError of a string that does not match, of unconverted data after
\* the match, or of a field the datetime constructor refuses.  (The day
\* padded with a blank, which %d also takes, is not modelled.)
Strptime(s, fraction) ==
    LET mo_end == FieldEnd(s, 6, 1, 12)
        d_end == FieldEnd(s, mo_end + 1, 1, 31)
        h == RunEnd(s, d_end, SpaceClass)
        h_end == FieldEnd(s, h, 0, 23)
        mi_end == FieldEnd(s, h_end + 1, 0, 59)
        sec_end == FieldEnd(s, mi_end + 1, 0, 61)
        f_end == FractionEnd(s, sec_end + 1)
        found_end == IF fraction THEN f_end ELSE sec_end
    IN  IF /\ DigitsAt(s, 1, 4) /\ CharAt(s, 5) = "-"
           /\ mo_end > 6 /\ CharAt(s, mo_end) = "-"
           /\ d_end > mo_end + 1 /\ h > d_end
           /\ h_end > h /\ CharAt(s, h_end) = ":"
           /\ mi_end > h_end + 1 /\ CharAt(s, mi_end) = ":"
           /\ sec_end > mi_end + 1
           /\ fraction => (CharAt(s, sec_end) = "." /\ f_end > sec_end + 1)
           /\ found_end = Len(s) + 1
        THEN NewDatetime(Number(SubSeq(s, 1, 4)),
                         Number(SubSeq(s, 6, mo_end - 1)),
                         Number(SubSeq(s, mo_end + 1, d_end - 1)),
                         Number(SubSeq(s, h, h_end - 1)),
                         Number(SubSeq(s, h_end + 1, mi_end - 1)),
                         Number(SubSeq(s, mi_end + 1, sec_end - 1)),
                         IF fraction
                         THEN Microseconds(SubSeq(s, sec_end + 1, f_end - 1))
                         ELSE 0)
        ELSE [raised |-> "ValueError", value |-> DatetimeNow]

\* str.strip()
Strip(s) ==
    LET inside == {i \in 1..Len(s) : ~IsSpace(CharAt(s, i))}
    IN  IF inside = {} THEN ""
        ELSE SubSeq(s, CHOOSE i \in inside : \A j \in inside : i <= j,
                       CHOOSE i \in inside : \A j \in inside : j <= i)

\* "/" in s
HasSlash(s) == \E i \in 1..Len(s) : CharAt(s, i) = "/"

\* faulty variant of ExceptValueError: the handler names another class
ExceptKeyError(cls) == cls = "KeyError"

\* "except ValueError:"
ExceptValueError(cls) == cls = "ValueError"

\* LogEntry(timestamp=..., level=..., node=..., message=..., raw_line=...)
ParsedEntry(timestamp, level, node, message, raw_line) ==
    [timestamp |-> timestamp, level |-> level, node |-> node,
     message |-> message, raw_line |-> raw_line]

NoParsedEntry == ParsedEntry(DatetimeNow, "", "", "", "")

Returned(e) == [raised |-> "none", entry |-> e]
Propagated(cls) == [raised |-> cls, entry |-> NoParsedEntry]

\* "try: <attempt> except ValueError: <handler>"
TryExceptValueError(attempt, handler) ==
    IF attempt.raised = "none" THEN attempt
    ELSE IF ExceptValueError(attempt.raised) THEN handler
    ELSE attempt

Now == [raised |-> "none", value |-> DatetimeNow]

\* the timestamp of a full line: "%Y-%m-%d %H:%M:%S.%f" in a try, the
\* format without the fraction in its handler, datetime.now() in the
\* handler of that
FullTimestamp(s) ==
    TryExceptValueError(Strptime(s, TRUE),
                        TryExceptValueError(Strptime(s, FALSE), Now))

\* the timestamp of a simple line whose second group has no "/"
SimpleTimestamp(s) == TryExceptValueError(Strptime(s, TRUE), Now)

\* faulty variant of MatchedEntry: the level is kept as written
MatchedEntryAsWritten(timestamp, level, node, message, raw_line) ==
    IF timestamp.raised # "none" THEN Propagated(timestamp.raised)
    ELSE Returned(ParsedEntry(timestamp.value, level, node,
                              Strip(message), raw_line))

\* the LogEntry of a matched line, unless its timestamp raised
MatchedEntry(timestamp, level, node, message, raw_line) ==
    IF timestamp.raised # "none" THEN Propagated(timestamp.raised)
    ELSE Returned(ParsedEntry(timestamp.value, Upper(level), node,
                              Strip(message), raw_line))

\* the branch of the full pattern
FullEntry(groups, raw_line) ==
    MatchedEntry(FullTimestamp(groups[2]), groups[1],
                 IF groups[3] = NoGroup THEN "unknown" ELSE groups[3],
                 groups[4], raw_line)

\* the branch of the simple pattern
SimpleEntry(groups, raw_line) ==
    IF HasSlash(groups[2])
    THEN MatchedEntry(Now, groups[1], groups[2], groups[3], raw_line)
    ELSE MatchedEntry(SimpleTimestamp(groups[2]), groups[1], "unknown",
                      groups[3], raw_line)

ParseMatches(full, simple, raw_line) ==
    IF full.matched THEN FullEntry(full.groups, raw_line)
    ELSE IF simple.matched THEN SimpleEntry(simple.groups, raw_line)
    ELSE Returned(ParsedEntry(DatetimeNow, "INFO", "unknown",
                              raw_line, raw_line))

\* _parse_ros_log(line): the entry returned, or the exception that leaves
ParseRosLog(s) == ParseMatches(RosLogPattern(s), RosSimplePattern(s), s)

\* the lines given to the parser
RosLines ==
    << "[ERROR] [2024-01-15 10:30:45.123456] [/move_base]: Transform timeout",
       "[warn] [2024-01-15 10:30:45.5]: Battery low",
       "[INFO] [2024-13-15 10:30:45.123] [/cam]: Bad month",
       "[INFO] [2023-02-29 10:30:45.123] [/cam]: No such day",
       "[INFO] [2024-01-15 10:30:45.1234567] [/cam]: Long fraction",
       "[INFO] [2024-01-15 10:30:60.0] [/cam]: Leap second",
       "[INFO] [0000-01-15 10:30:45.1] [/cam]: Year zero",
       "[WARN] [/camera]: Frame dropped",
       "[WARN] [2024-01-15 10:30:45]: No fraction",
       "[WARN] [2024-1-5 1:2:3.5]: Short fields",
       "[DEBUG] [whatever]: text",
       "garbage text with no brackets",
       "",
       "   ",
       "[INFO]",
       "[INFO] []: x",
       "[INFO] [/a]:",
       "[INFO] [/a]: ",
       "[ERR-OR] [/a]: x",
       " [INFO] [/a]: leading blank",
       "[ERROR][2024-01-15 10:30:45.123]: y",
       "[INFO] [2024-01-15\t10:30:45.25] [/a b]:   spaced   ",
       "[FATAL] [2024-02-29 23:59:59.999999] [/hw]: Emergency stop: now",
       "[INFO] [2024-01-15 10:30:45.123] []: empty node",
       "[INFO] [2024-01-15 10:30:45.123] [/n] [/m]: two nodes",
       "[INFO] [2024-01-15 10:30:45.123] [/n] no colon",
       "[INFO] [2024-01-15 24:00:00.0]: Hour 24",
       "[INFO] [2024-04-31 10:30:45.0] [/cam]: April 31",
       "[ERROR] [2024-01-15 10:30:45] [/move_base]: Transform timeout" >>

\* the parse of each line
ParseResults ==
    {[line |-> i, result |-> ParseRosLog(RosLines[i])] : i \in DOMAIN RosLines}

ParseOf(i) == (CHOOSE t \in ParseResults : t.line = i).result

(***************************************************************************)
(* Analyzer (agents/analyzer.py).  A list of logs is a sequence of indexes *)
(* into DetectEntries.  The external service answers a request with JSON   *)
(* text, with text that is no JSON, or the request raises.                 *)
(***************************************************************************)
NoAnalyzerStats ==
    [total_analyses |-> 0, successful_analyses |-> 0, failed_analyses |-> 0]

\* api_key or settings.OPENAI_API_KEY
ConfiguredKey(api_key, settings_key) ==
    IF api_key # "" THEN api_key ELSE settings_key

ApiKeys == {"", "sk-test"}

\* faulty variant of NoApiKey: the service is always tried
NoApiKeyNever(api_key) == FALSE

\* "if not self.api_key"
NoApiKey(api_key) == api_key = ""

AnalyzeLogs == {<< >>, << 1 >>, << 1, 2 >>, << 6, 2 >>, << 5 >>, << 1, 4 >>}

\* "return None"
NoResult ==
    [returned |-> "None", severity |-> "", error_type |-> "", root_cause |-> "",
     affected_systems |-> << >>, corrective_actions |-> << >>,
     confidence |-> 0, mock |-> FALSE]

\* AnalysisResult(...); confidence in hundredths
AnalysisResult(severity, error_type, root_cause, systems, actions, conf, mock) ==
    [returned |-> "AnalysisResult", severity |-> severity,
     error_type |-> error_type, root_cause |-> root_cause,
     affected_systems |-> systems, corrective_actions |-> actions,
     confidence |-> conf, mock |-> mock]

\* error_logs[0] if error_logs else logs[-1] if logs else None, as an index
\* of the list; 0 is None
PrimaryLog(logs) ==
    LET error_logs == {i \in DOMAIN logs : EntryIsError(DetectEntries[logs[i]])}
    IN  IF error_logs # {}
        THEN CHOOSE i \in error_logs : \A j \in error_logs : i <= j
        ELSE Len(logs)

\* "word in message"
InMessage(word, message) == FindFrom(message, word, 1) # 0

\* the mock analysis of a primary log
MockOf(primary, message) ==
    IF InMessage("transform", message)
    THEN AnalysisResult("high", "Transform Timeout",
             "TF tree not properly initialized or transform lookup timeout",
             << primary.node >>,
             << "Check TF tree with 'rosrun tf view_frames'",
                "Restart static transform publisher",
                "Verify frame IDs in configuration" >>, 75, TRUE)
    ELSE IF InMessage("plan", message) \/ InMessage("path", message)
    THEN AnalysisResult("high", "Planning Failure",
             "Navigation planner unable to find valid path to goal",
             << primary.node >>,
             << "Check costmap for obstacles", "Verify goal is reachable",
                "Adjust planner parameters" >>, 75, TRUE)
    ELSE IF \/ InMessage("sensor", message) \/ InMessage("laser", message)
            \/ InMessage("camera", message)
    THEN AnalysisResult("high", "Sensor Timeout",
             "Sensor driver not publishing data or connection lost",
             << primary.node >>,
             << "Check sensor connections", "Restart sensor driver node",
                "Verify topic is being published" >>, 75, TRUE)
    ELSE AnalysisResult("high", "System Error",
             "Error detected in " \o primary.node \o ": " \o primary.message,
             << primary.node >>,
             << "Review " \o primary.node \o " logs",
                "Check node status with 'rosnode info'",
                "Restart the affected node" >>, 75, TRUE)

\* _create_mock_analysis(logs)
CreateMockAnalysis(logs) ==
    IF PrimaryLog(logs) # 0
    THEN MockOf(DetectEntries[logs[PrimaryLog(logs)]],
                Lower(DetectEntries[logs[PrimaryLog(logs)]].message))
    ELSE AnalysisResult("low", "No Error Detected",
                        "No errors found in provided logs", << >>,
                        << "No action required" >>, 90, TRUE)

\* _create_fallback_analysis(logs, error_message)
CreateFallbackAnalysis(logs, error_message) ==
    AnalysisResult(
        IF PrimaryLog(logs) # 0
           /\ EntryIsError(DetectEntries[logs[PrimaryLog(logs)]])
        THEN "high" ELSE "medium",
        "Analysis Failed",
        "AI analysis failed: " \o error_message \o ". Manual review required.",
        IF PrimaryLog(logs) # 0
        THEN << DetectEntries[logs[PrimaryLog(logs)]].node >> ELSE << >>,
        << "Review log entries manually", "Check system status",
           "Restart affected nodes if necessary" >>, 0, FALSE)

\* what client.chat.completions.create and _parse_response can come to: an
\* answer that is the JSON asked for, an answer json.loads refuses, the
\* timeout of the request, any other exception
ServiceOutcomes == {"json", "not_json", "TimeoutError", "Exception"}

\* _parse_response of the JSON answer of the model
ParsedResponse ==
    AnalysisResult("critical", "Transform Timeout", "TF tree broken",
                   << "/move_base" >>, << "Restart tf" >>, 95, FALSE)

\* the part of analyze() inside "async with self._semaphore"
ServiceResult(logs, out) ==
    CASE out = "json" -> ParsedResponse
      [] out = "not_json" -> NoResult
      [] out = "TimeoutError" -> CreateFallbackAnalysis(logs, "Analysis timeout")
      [] OTHER -> CreateFallbackAnalysis(logs, "Exception")

ServiceStats(st, out) ==
    [st EXCEPT !.total_analyses = @ + 1,
               !.successful_analyses = IF out = "json" THEN @ + 1 ELSE @,
               !.failed_analyses = IF out = "json" THEN @ ELSE @ + 1]

\* no analyze() call yet
NoAnalysis == [n |-> 0, logs |-> << >>, result |-> NoResult, requests |-> 0]

(***************************************************************************)
(* State.                                                                  *)
(***************************************************************************)
VARIABLES
    buffer,           \* _buffer: deque(maxlen=window_size) of entry ids
    error_buffer,     \* _error_buffer: deque(maxlen=error_window_size)
    last_flush_time,  \* _last_flush_time: a datetime
    running,          \* _running
    flush_task,       \* _flush_task: the loop task start() created last
    locked,           \* _lock._locked
    waiters,          \* _lock._waiters: the futures of the tasks queued
    pc,               \* where each task is suspended
    arg,              \* the entry an adder's add() in progress was given
    timer,            \* clock ticks left of each loop's asyncio.sleep
    nadds,            \* add() calls so far
    ncalls,           \* calls of the client task so far
    added,            \* history: entries appended since the buffer was last emptied
    ev,               \* history: what the last step completed
    stats,            \* ErrorDetector._stats
    detection,        \* history: the last detect() call and how it ended
    keywords,         \* ErrorDetector.error_keywords and warning_keywords
    held,             \* the list object an observer was returned and kept
    file,             \* the lines of the watched file; 0 is a blank line
    last_position,    \* LogFileHandler._last_position, in lines
    watching,         \* the Observer thread has been started
    events,           \* modified events the Observer has not dispatched yet
    tpc,              \* where the ingestor's task and the Observer thread are
    tlines,           \* each thread's local list of lines read
    tend,             \* each thread's local f.tell()
    emitted,          \* history: the lines passed to the callback, in order
    log_queue,        \* app_state._log_queue: the entries put and not yet taken
    is_monitoring,    \* app_state.is_monitoring
    processor,        \* the process_log_queue task: where it is, and its entry
    reached,          \* history: the entries add() was called with, in order
    parsed,           \* history: each line parsed and what the callback got
    analyzer,         \* Analyzer.api_key and Analyzer._stats
    analysis,         \* history: the last analyze() call and what it returned
    watchers          \* the Observer threads started, each with its handler

engine_vars ==
    << buffer, error_buffer, last_flush_time, running, flush_task, locked,
       waiters, pc, arg, timer, nadds, ncalls, added, ev >>
detector_vars == << stats, detection, keywords >>
observer_vars == << held >>
tailer_vars ==
    << file, last_position, watching, events, tpc, tlines, tend, emitted >>

dispatch_vars == << log_queue, is_monitoring, processor, reached >>
parser_vars == << parsed >>
analyzer_vars == << analyzer, analysis >>
monitor_vars == << watchers >>

vars ==
    << engine_vars, detector_vars, observer_vars, tailer_vars, dispatch_vars,
       parser_vars, analyzer_vars, monitor_vars >>

\* what the operations of the context engine leave alone
outside_engine ==
    << detector_vars, observer_vars, tailer_vars, dispatch_vars, parser_vars,
       analyzer_vars, monitor_vars >>

\* what the operations of the error detector leave alone
outside_detector ==
    << engine_vars, observer_vars, tailer_vars, dispatch_vars, parser_vars,
       analyzer_vars, monitor_vars >>

\* what an observer of the buffers leaves alone
outside_observer ==
    << detector_vars, tailer_vars, dispatch_vars, parser_vars,
       analyzer_vars, monitor_vars >>

\* what the log ingestor leaves alone
outside_tailer ==
    << engine_vars, detector_vars, observer_vars, dispatch_vars, parser_vars,
       analyzer_vars, monitor_vars >>

\* what the dispatch of entries to the pipeline leaves alone
outside_dispatch ==
    << engine_vars, detector_vars, observer_vars, parser_vars,
       analyzer_vars, monitor_vars >>

\* what the parsing of a line leaves alone
outside_parser ==
    << engine_vars, detector_vars, observer_vars, tailer_vars, dispatch_vars,
       analyzer_vars, monitor_vars >>

\* what the analyzer leaves alone
outside_analyzer ==
    << engine_vars, detector_vars, observer_vars, tailer_vars, dispatch_vars,
       parser_vars, monitor_vars >>

\* what the startup and the monitoring endpoints leave alone
outside_monitor ==
    << detector_vars, observer_vars, parser_vars, analyzer_vars >>

(***************************************************************************)
(* datetime.  An instant is kept as its distance to the present, which is  *)
(* all the code compares; distances of TimeoutSec and more are one value.  *)
(***************************************************************************)
\* utc_now(): datetime.now(timezone.utc), timezone-aware
utc_now == [tz |-> "utc", ago |-> 0]

\* datetime.utcnow(): naive
datetime_utcnow == [tz |-> "naive", ago |-> 0]

\* datetime.__sub__: a - b in ticks; naive and aware operands raise TypeError
DatetimeSub(a, b) ==
    [raised |-> a.tz # b.tz, ticks |-> b.ago - a.ago]

(***************************************************************************)
(* collections.deque and list slicing.                                     *)
(***************************************************************************)
\* faulty variant of DequeAppend: a full deque drops its newest element
DequeAppendDropsNewest(d, e, maxlen) ==
    IF maxlen = 0 THEN << >>
    ELSE IF Len(d) >= maxlen THEN Append(SubSeq(d, 1, Len(d) - 1), e)
    ELSE Append(d, e)

\* deque(maxlen).append(e): a full deque drops its oldest element
DequeAppend(d, e, maxlen) ==
    IF maxlen = 0 THEN << >>
    ELSE IF Len(d) >= maxlen THEN Append(Tail(d), e)
    ELSE Append(d, e)

\* list(d)[-n:]
SliceLast(d, n) ==
    IF n = 0 THEN d ELSE SubSeq(d, Max(1, Len(d) - n + 1), Len(d))

\* deque(items, maxlen): keeps the last maxlen items
DequeOf(items, maxlen) == SubSeq(items, Max(1, Len(items) - maxlen + 1), Len(items))

\* faulty variant of ErrorContext: the oldest entries instead of the most recent
ErrorContextOldest(buf) == SubSeq(buf, 1, Min(Len(buf), ErrorWindowSize))

\* the error context add() builds from the rolling buffer
ErrorContext(buf) == DequeOf(SliceLast(buf, ErrorWindowSize), ErrorWindowSize)

(***************************************************************************)
(* asyncio.Lock.  acquire() takes the lock at once when it is free and no  *)
(* live waiter is queued; otherwise the task queues a future and suspends. *)
(* release() frees the lock and sets the result of the first future if it  *)
(* is still pending; the woken task takes the lock when it next runs.      *)
(***************************************************************************)
AllCancelled(w) == \A i \in 1..Len(w) : w[i].st = "cancelled"

\* the fast path of Lock.acquire
CanAcquire(lk, w) == ~lk /\ AllCancelled(w)

\* Lock._wake_up_first
WakeUpFirst(w) ==
    IF w # << >> /\ w[1].st = "pending" THEN [w EXCEPT ![1].st = "done"] ELSE w

\* the slow path of Lock.acquire: queue a future
Enqueue(w, t) == Append(w, [task |-> t, st |-> "pending"])

\* self._waiters.remove(fut)
Dequeue(w, t) == SelectSeq(w, LAMBDA x : x.task # t)

\* the future of task t has its result: t resumes inside acquire()
Woken(t) == \E i \in 1..Len(waiters) : waiters[i].task = t /\ waiters[i].st = "done"

(***************************************************************************)
(* History.                                                                *)
(***************************************************************************)
\* task, operation, argument, list returned or handed to a callback, result,
\* and the class of the exception a callback raised in the step ("none" if none)
Quiet ==
    [task |-> NoTask, op |-> "none", arg |-> 0, val |-> << >>, res |-> "None",
     exc |-> "none"]
EventExc(t, op, a, val, res, exc) ==
    [task |-> t, op |-> op, arg |-> a, val |-> val, res |-> res, exc |-> exc]
Event(t, op, a, val, res) == EventExc(t, op, a, val, res, "none")

(***************************************************************************)
(* Callbacks.  A callback returns, or raises an exception of some class;   *)
(* the call sites in the engine are wrapped in try / except Exception.     *)
(***************************************************************************)
CallbackOutcomes == {"return", "ValueError"}

\* how the await of a callback ends: as the callback ends, or with the
\* CancelledError that Task.cancel() throws into the suspended task
AwaitOutcomes == CallbackOutcomes \cup {"CancelledError"}

\* the exception of an outcome, "none" when the callback returned
Raised(out) == IF out = "return" THEN "none" ELSE out

\* faulty variant of ExceptException: the call site has no handler
ExceptNothing(cls) == FALSE

\* "except Exception as e": the handler catches every subclass of Exception;
\* CancelledError derives from BaseException
ExceptException(cls) == cls \in {"Exception", "ValueError", "TypeError"}

\* faulty variant of AsyncWithExit: acquire() and release() without finally
ReleaseOnReturnOnly(out) == out # "return"

\* "async with self._lock": _locked after the block is left with outcome out;
\* __aexit__ calls release() on every exit path
AsyncWithExit(out) == FALSE

\* the call completes without an exception leaving the call site
Handled(out) == out = "return" \/ ExceptException(out)

BoolStr(b) == IF b THEN "True" ELSE "False"

\* no list kept
NoList == [of |-> "none", alias |-> FALSE, items |-> << >>]

Init ==
    /\ buffer = << >>
    /\ error_buffer = << >>
    /\ last_flush_time = utc_now
    /\ running = FALSE
    /\ flush_task = NoTask
    /\ locked = FALSE
    /\ waiters = << >>
    /\ pc = [t \in Tasks |-> IF t \in Loops THEN "none" ELSE "idle"]
    /\ arg = [t \in Adders |-> 0]
    /\ timer = [l \in Loops |-> 0]
    /\ nadds = 0
    /\ ncalls = 0
    /\ added = << >>
    /\ ev = Quiet
    /\ stats = NoStats
    /\ detection = NoDetection
    /\ keywords = AppKeywords
    /\ held = NoList
    /\ file = << >>
    /\ last_position = 0
    /\ watching = FALSE
    /\ events = 0
    /\ tpc = [main |-> "init", watcher |-> "idle"]
    /\ tlines = [main |-> << >>, watcher |-> << >>]
    /\ tend = [main |-> 0, watcher |-> 0]
    /\ emitted = << >>
    /\ log_queue = << >>
    /\ is_monitoring = FALSE
    /\ processor = [pc |-> "get", entry |-> 0]
    /\ reached = << >>
    /\ parsed = << >>
    /\ analyzer = [api_key |-> "", stats |-> NoAnalyzerStats]
    /\ analysis = NoAnalysis
    /\ watchers = << >>

(***************************************************************************)
(* SmartContextEngine.add                                                  *)
(***************************************************************************)
\* faulty variant of BufferAppend: a plain list, never evicting
BufferAppendUnbounded(buf, e) == Append(buf, e)

\* ContextEngine.add, the critical section: self._buffer.append(log_entry)
BufferAppend(buf, e) == DequeAppend(buf, e, WindowSize)

\* add(), second critical section, up to the await of on_error_context:
\* the error buffer is rebuilt and the callback gets a copy of it
AddRebuild(t, e, buf, late) ==
    /\ error_buffer' = ErrorContext(buf)
    /\ locked' = TRUE
    /\ pc' = [pc EXCEPT ![t] = "cb"]
    /\ arg' = [arg EXCEPT ![t] = e]
    /\ ev' = Event(t, "on_error_context", e, error_buffer',
                   IF late THEN "late" ELSE "direct")

\* add() returns is_error
AddReturn(t, e, isErr) ==
    /\ pc' = [pc EXCEPT ![t] = "idle"]
    /\ arg' = [arg EXCEPT ![t] = 0]
    /\ ev' = Event(t, "add", e, << >>, BoolStr(isErr))

\* add(e) when both acquires take the fast path: append, is_error, rebuild
AddCall(t, e) ==
    /\ UNCHANGED outside_engine
    /\ pc[t] = "idle"
    /\ nadds < MaxAdds
    /\ nadds' = nadds + 1
    /\ IF CanAcquire(locked, waiters)
       THEN /\ buffer' = BufferAppend(buffer, e)
            /\ added' = Append(added, e)
            /\ waiters' = waiters
            /\ IF AddIsError[e]
               THEN AddRebuild(t, e, BufferAppend(buffer, e), FALSE)
               ELSE /\ AddReturn(t, e, FALSE)
                    /\ UNCHANGED << error_buffer, locked >>
       ELSE /\ waiters' = Enqueue(waiters, t)
            /\ pc' = [pc EXCEPT ![t] = "add1"]
            /\ arg' = [arg EXCEPT ![t] = e]
            /\ ev' = Quiet
            /\ UNCHANGED << buffer, added, error_buffer, locked >>
    /\ UNCHANGED << last_flush_time, running, flush_task, timer, ncalls >>

\* add() resumes in super().add(): append, release, is_error, second acquire
AddResume1(t) ==
    /\ UNCHANGED outside_engine
    /\ pc[t] = "add1"
    /\ Woken(t)
    /\ LET e == arg[t]
           w == WakeUpFirst(Dequeue(waiters, t))
       IN /\ buffer' = BufferAppend(buffer, e)
          /\ added' = Append(added, e)
          /\ IF ~AddIsError[e]
             THEN /\ AddReturn(t, e, FALSE)
                  /\ waiters' = w
                  /\ UNCHANGED << error_buffer, locked >>
             ELSE IF CanAcquire(FALSE, w)
             THEN /\ AddRebuild(t, e, BufferAppend(buffer, e), FALSE)
                  /\ waiters' = w
             ELSE /\ waiters' = Enqueue(w, t)
                  /\ pc' = [pc EXCEPT ![t] = "add2"]
                  /\ ev' = Quiet
                  /\ UNCHANGED << arg, error_buffer, locked >>
    /\ UNCHANGED << last_flush_time, running, flush_task, timer, nadds, ncalls >>

\* add() resumes in its second acquire: rebuild, callback
AddResume2(t) ==
    /\ UNCHANGED outside_engine
    /\ pc[t] = "add2"
    /\ Woken(t)
    /\ waiters' = Dequeue(waiters, t)
    /\ AddRebuild(t, arg[t], buffer, TRUE)
    /\ UNCHANGED << buffer, added, last_flush_time, running, flush_task,
                    timer, nadds, ncalls >>

\* on_error_context returns or raises.  A caught exception is printed; the
\* lock is released and add() returns True.  An exception that is not caught
\* leaves add() through "async with", which releases the lock
CallbackReturn(t) ==
    /\ UNCHANGED outside_engine
    /\ pc[t] = "cb"
    /\ pc' = [pc EXCEPT ![t] = "idle"]
    /\ arg' = [arg EXCEPT ![t] = 0]
    /\ \E out \in AwaitOutcomes :
          /\ locked' = AsyncWithExit(out)
          /\ waiters' = IF locked' THEN waiters ELSE WakeUpFirst(waiters)
          /\ ev' = EventExc(t, "add", arg[t], << >>,
                            IF Handled(out) THEN "True" ELSE "raised",
                            Raised(out))
    /\ UNCHANGED << buffer, added, error_buffer, last_flush_time, running,
                    flush_task, timer, nadds, ncalls >>

(***************************************************************************)
(* The other public operations, called by a client task.                   *)
(***************************************************************************)
\* ContextEngine.should_flush, the critical section: "True", "False", or the
\* TypeError of the datetime subtraction
ShouldFlush(buf, lft, triggered_by_error) ==
    IF buf = << >> THEN "False"
    ELSE IF triggered_by_error THEN "True"
    ELSE IF Len(buf) >= WindowSize THEN "True"
    ELSE LET time_since_flush == DatetimeSub(datetime_utcnow, lft)
         IN IF time_since_flush.raised THEN "TypeError"
            ELSE IF time_since_flush.ticks >= TimeoutSec THEN "True"
            ELSE "False"

\* faulty variant of FlushBuffer: flush() forgets self._buffer.clear()
FlushBufferKept(buf) == buf

\* faulty variant of FlushBuffer: the newest entry stays behind and is
\* returned again by the next flush()
FlushBufferKeepsNewest(buf) == IF buf = << >> THEN buf ELSE << buf[Len(buf)] >>

\* ContextEngine.flush, the critical section: what the buffer and
\* _last_flush_time become; the list returned is the buffer as it was
FlushBuffer(buf) == << >>
FlushTime(lft) == utc_now

ClientOps ==
    {"get_context", "get_error_context", "flush_error_context", "flush",
     "clear", "should_flush_true", "should_flush_false"}

\* one critical section of operation op by client c, entered with the queue w
\* (the client's own future removed), and the release that ends it
ClientSection(c, op, w) ==
    LET w1 == WakeUpFirst(w)
        done == /\ pc' = [pc EXCEPT ![c] = "idle"]
                /\ waiters' = w1
    IN CASE op = "get_context" ->
              /\ ev' = Event(c, op, 0, buffer, "None")
              /\ done
              /\ UNCHANGED << buffer, added, error_buffer, last_flush_time >>
         [] op = "get_error_context" ->
              /\ ev' = Event(c, op, 0, error_buffer, "None")
              /\ done
              /\ UNCHANGED << buffer, added, error_buffer, last_flush_time >>
         [] op = "flush_error_context" ->
              /\ ev' = Event(c, op, 0, error_buffer, "None")
              /\ error_buffer' = << >>
              /\ done
              /\ UNCHANGED << buffer, added, last_flush_time >>
         [] op = "flush" ->
              /\ ev' = Event(c, op, 0, buffer, "None")
              /\ buffer' = FlushBuffer(buffer)
              /\ last_flush_time' = FlushTime(last_flush_time)
              /\ added' = << >>
              /\ done
              /\ UNCHANGED error_buffer
         [] op \in {"should_flush_true", "should_flush_false"} ->
              /\ ev' = Event(c, op, 0, << >>,
                             ShouldFlush(buffer, last_flush_time,
                                         op = "should_flush_true"))
              /\ done
              /\ UNCHANGED << buffer, added, error_buffer, last_flush_time >>
         [] op = "clear" ->
              \* super().clear(), then the second critical section if the
              \* lock can be taken again at once
              /\ buffer' = << >>
              /\ added' = << >>
              /\ IF CanAcquire(FALSE, w1)
                 THEN /\ error_buffer' = << >>
                      /\ ev' = Event(c, op, 0, << >>, "None")
                      /\ done
                 ELSE /\ waiters' = Enqueue(w1, c)
                      /\ pc' = [pc EXCEPT ![c] = "clear2"]
                      /\ ev' = Quiet
                      /\ UNCHANGED error_buffer
              /\ UNCHANGED last_flush_time
         [] op = "clear2" ->
              /\ error_buffer' = << >>
              /\ ev' = Event(c, "clear", 0, << >>, "None")
              /\ done
              /\ UNCHANGED << buffer, added, last_flush_time >>

\* task c calls op: the critical section at once, or the task queues
CallOp(c, op) ==
    /\ pc[c] = "idle"
    /\ IF CanAcquire(locked, waiters)
       THEN ClientSection(c, op, waiters)
       ELSE /\ waiters' = Enqueue(waiters, c)
            /\ pc' = [pc EXCEPT ![c] = op]
            /\ ev' = Quiet
            /\ UNCHANGED << buffer, added, error_buffer, last_flush_time >>
    /\ UNCHANGED << running, flush_task, locked, arg, timer, nadds >>

\* the client calls op
ClientCall(c, op) ==
    /\ UNCHANGED outside_engine
    /\ ncalls < MaxCalls
    /\ ncalls' = ncalls + 1
    /\ CallOp(c, op)

\* the client's future has its result: the critical section it waited for
ClientResume(c) ==
    /\ UNCHANGED outside_engine
    /\ pc[c] \in ClientOps \cup {"clear2"}
    /\ Woken(c)
    /\ ClientSection(c, pc[c], Dequeue(waiters, c))
    /\ UNCHANGED << running, flush_task, locked, arg, timer, nadds, ncalls >>

(***************************************************************************)
(* An observer: a task that calls get_context() or get_error_context(),    *)
(* keeps the list it was returned and changes that list.  A list object is *)
(* either one of its own or the engine's deque itself.                     *)
(***************************************************************************)
ReadOps == {"get_context", "get_error_context"}

\* faulty variant of ListCopy: "return self._buffer", the live deque
ListAlias(src, items) == [of |-> src, alias |-> TRUE, items |-> items]

\* "return list(self._buffer)": a new list with the items of the deque
ListCopy(src, items) == [of |-> src, alias |-> FALSE, items |-> items]

\* the items of the list object h now
Deref(h) ==
    IF ~h.alias THEN h.items
    ELSE IF h.of = "buffer" THEN buffer ELSE error_buffer

\* get_context() / get_error_context() called by the observer
ObserverCall(o, op) ==
    /\ UNCHANGED outside_engine
    /\ UNCHANGED ncalls
    /\ CallOp(o, op)

\* the observer keeps the list its call has just returned
Keep(o) ==
    /\ ev.task = o
    /\ ev.op \in ReadOps
    /\ held' = ListCopy(IF ev.op = "get_context" THEN "buffer" ELSE "error_buffer",
                        ev.val)
    /\ UNCHANGED << engine_vars, outside_observer >>

\* list.append(e) and list.clear() on a list
ListMutations ==
    {[kind |-> "clear", e |-> 0]} \cup
    {[kind |-> "append", e |-> e] :
        e \in {i \in EntryIds : LogEntries[i].node = "/navigation"}}
ApplyMutation(l, m) == IF m.kind = "clear" THEN << >> ELSE Append(l, m.e)

\* the observer changes the list it keeps; items is what a list of the
\* observer's own holds after the same changes
MutateList(o) ==
    /\ held.of # "none"
    /\ \E m \in ListMutations :
          /\ m.kind = "append" =>
                (Len(Deref(held)) < WindowSize /\ Len(held.items) < WindowSize)
          /\ held' = [held EXCEPT !.items = ApplyMutation(@, m)]
          /\ IF held.alias /\ held.of = "buffer"
             THEN buffer' = ApplyMutation(buffer, m) /\ UNCHANGED error_buffer
             ELSE IF held.alias
             THEN error_buffer' = ApplyMutation(error_buffer, m) /\ UNCHANGED buffer
             ELSE UNCHANGED << buffer, error_buffer >>
    /\ ev' = Event(o, "list_mutated", 0, << >>, "None")
    /\ UNCHANGED << last_flush_time, running, flush_task, locked, waiters, pc,
                    arg, timer, nadds, ncalls, added >>
    /\ UNCHANGED outside_observer

(***************************************************************************)
(* ContextEngine._flush_loop, start and stop.                              *)
(***************************************************************************)
\* "while self._running": the loop sleeps again, or ends
LoopAgain(l) ==
    IF running
    THEN /\ pc' = [pc EXCEPT ![l] = "sleep"]
         /\ timer' = [timer EXCEPT ![l] = SleepInterval]
    ELSE /\ pc' = [pc EXCEPT ![l] = "done"]
         /\ UNCHANGED timer

\* faulty variant of CallbackDue: the callback is called whatever flush()
\* returned
CallbackDueAlways(context) == TRUE

\* _flush_loop: "if context and self.on_flush", with on_flush set
CallbackDue(context) == context # << >>

\* flush() in the loop and what follows it: on_flush(context) when the context
\* is not empty (an exception of the callback is caught and printed), then
\* the loop condition
LoopFlush(l, w) ==
    /\ buffer' = FlushBuffer(buffer)
    /\ last_flush_time' = FlushTime(last_flush_time)
    /\ added' = << >>
    /\ waiters' = WakeUpFirst(w)
    /\ IF CallbackDue(buffer)
       THEN \E out \in CallbackOutcomes :
               /\ ev' = EventExc(l, "on_flush", 0, buffer, "None", Raised(out))
               /\ IF Handled(out)
                  THEN LoopAgain(l)
                  ELSE \* the exception leaves _flush_loop: the task ends
                       /\ pc' = [pc EXCEPT ![l] = "crashed"]
                       /\ UNCHANGED timer
       ELSE /\ ev' = Event(l, "loop_flush", 0, buffer, "None")
            /\ LoopAgain(l)

\* should_flush(False) in the loop, entered with the queue w, and what follows
LoopCheck(l, w) ==
    LET r == ShouldFlush(buffer, last_flush_time, FALSE)
        w1 == WakeUpFirst(w)
    IN CASE r = "TypeError" ->
              \* the exception leaves _flush_loop: the task ends
              /\ pc' = [pc EXCEPT ![l] = "crashed"]
              /\ waiters' = w1
              /\ ev' = Event(l, "loop_check", 0, << >>, r)
              /\ UNCHANGED << buffer, added, last_flush_time, timer >>
         [] r = "False" ->
              /\ LoopAgain(l)
              /\ waiters' = w1
              /\ ev' = Event(l, "loop_check", 0, << >>, r)
              /\ UNCHANGED << buffer, added, last_flush_time >>
         [] r = "True" ->
              IF CanAcquire(FALSE, w1)
              THEN LoopFlush(l, w1)
              ELSE /\ waiters' = Enqueue(w1, l)
                   /\ pc' = [pc EXCEPT ![l] = "flush"]
                   /\ ev' = Event(l, "loop_check", 0, << >>, r)
                   /\ UNCHANGED << buffer, added, last_flush_time, timer >>

\* start(): _running = True and a new loop task, the next unused one of ls
StartFrom(ls) ==
    /\ \E l \in ls : pc[l] = "none"
    /\ LET unused == {i \in DOMAIN LoopOrder : LoopOrder[i] \in ls /\ pc[LoopOrder[i]] = "none"}
           l == LoopOrder[CHOOSE i \in unused : \A j \in unused : i <= j]
       IN /\ pc' = [pc EXCEPT ![l] = "created"]
          /\ flush_task' = l
    /\ running' = TRUE
    /\ ev' = Event(NoTask, "start", 0, << >>, "None")
    /\ UNCHANGED << buffer, error_buffer, last_flush_time, locked, waiters,
                    arg, timer, nadds, ncalls, added >>

\* start(), called once
Start ==
    /\ UNCHANGED outside_engine
    /\ StartFrom(FirstLoop)

\* start(), called any number of times
Restart ==
    /\ UNCHANGED outside_engine
    /\ StartFrom(Loops)

\* faulty variant of CancelPc: cancel() also acts on a task that has ended
CancelPcAgain(l) ==
    IF pc[l] \in {"created", "sleep"} THEN "cancelled" ELSE "cancelling"

\* Task.cancel() on the loop task l: CancelledError is thrown into it where it
\* is suspended.  A task that has not run yet or sleeps ends at once; a task
\* queued for the lock ends in the handler of Lock.acquire (LoopCancelled);
\* on a task that has ended cancel() does nothing
CancelPc(l) ==
    CASE pc[l] \in {"created", "sleep"} -> "cancelled"
      [] pc[l] \in {"should_flush", "flush"} -> "cancelling"
      [] OTHER -> pc[l]

CancelWaiter(w, l) ==
    [i \in 1..Len(w) |->
        IF w[i].task = l /\ w[i].st = "pending"
        THEN [w[i] EXCEPT !.st = "cancelled"] ELSE w[i]]

\* stop(): _running = False and the task in _flush_task is cancelled; e is
\* what the call leaves in ev
StopLeaving(e) ==
    /\ UNCHANGED outside_engine
    /\ running' = FALSE
    /\ IF flush_task # NoTask
       THEN /\ pc' = [pc EXCEPT ![flush_task] = CancelPc(flush_task)]
            /\ waiters' = CancelWaiter(waiters, flush_task)
       ELSE UNCHANGED << pc, waiters >>
    /\ ev' = e
    /\ UNCHANGED << buffer, error_buffer, last_flush_time, flush_task, locked,
                    arg, timer, nadds, ncalls, added >>

\* stop(), which returns nothing
Stop == StopLeaving(Quiet)

\* stop(), with the call and whether it follows another stop() kept in ev
StopObserved ==
    StopLeaving(Event(NoTask, "stop", 0, << >>,
                      IF ev.op = "stop" THEN "again" ELSE "None"))

\* the loop task runs for the first time
LoopBegin(l) ==
    /\ UNCHANGED outside_engine
    /\ pc[l] = "created"
    /\ LoopAgain(l)
    /\ ev' = Quiet
    /\ UNCHANGED << buffer, error_buffer, last_flush_time, running, flush_task,
                    locked, waiters, arg, nadds, ncalls, added >>

\* asyncio.sleep(5) is over: should_flush(False), at once or queued
LoopWake(l) ==
    /\ UNCHANGED outside_engine
    /\ pc[l] = "sleep"
    /\ timer[l] = 0
    /\ IF CanAcquire(locked, waiters)
       THEN LoopCheck(l, waiters)
       ELSE /\ waiters' = Enqueue(waiters, l)
            /\ pc' = [pc EXCEPT ![l] = "should_flush"]
            /\ ev' = Quiet
            /\ UNCHANGED << buffer, added, last_flush_time, timer >>
    /\ UNCHANGED << error_buffer, running, flush_task, locked, arg, nadds, ncalls >>

\* the loop's future has its result: the critical section it waited for
LoopResume(l) ==
    /\ UNCHANGED outside_engine
    /\ pc[l] \in {"should_flush", "flush"}
    /\ Woken(l)
    /\ IF pc[l] = "should_flush"
       THEN LoopCheck(l, Dequeue(waiters, l))
       ELSE LoopFlush(l, Dequeue(waiters, l))
    /\ UNCHANGED << error_buffer, running, flush_task, locked, arg, nadds, ncalls >>

\* the cancelled loop task runs: Lock.acquire removes its future, wakes the
\* next waiter if the lock is free, and the task ends
LoopCancelled(l) ==
    /\ UNCHANGED outside_engine
    /\ pc[l] = "cancelling"
    /\ pc' = [pc EXCEPT ![l] = "cancelled"]
    /\ waiters' = IF locked THEN Dequeue(waiters, l)
                  ELSE WakeUpFirst(Dequeue(waiters, l))
    /\ ev' = Quiet
    /\ UNCHANGED << buffer, error_buffer, last_flush_time, running, flush_task,
                    locked, arg, timer, nadds, ncalls, added >>

\* one clock tick passes
Tick ==
    /\ UNCHANGED outside_engine
    /\ timer' = [l \in Loops |-> Max(timer[l] - 1, 0)]
    /\ last_flush_time' =
         [last_flush_time EXCEPT !.ago = Min(@ + 1, TimeoutSec)]
    /\ ev' = Quiet
    /\ UNCHANGED << buffer, error_buffer, running, flush_task, locked, waiters,
                    pc, arg, nadds, ncalls, added >>

(***************************************************************************)
(* ErrorDetector.detect and reset_stats.                                   *)
(***************************************************************************)
\* the DetectionResult detect() builds in this detector
DetectionResult(e) == Classify(keywords, e)

\* faulty variant of CountDetection: a detect() that finds nothing is not counted
CountDetectionFindings(st, r) ==
    [total_checked |->
         st.total_checked + (IF r.is_error \/ r.is_warning THEN 1 ELSE 0),
     errors_detected |-> st.errors_detected + (IF r.is_error THEN 1 ELSE 0),
     warnings_detected |->
         st.warnings_detected + (IF ~r.is_error /\ r.is_warning THEN 1 ELSE 0)]

\* faulty variant of CountDetection: "if is_warning" in place of "elif"
CountDetectionBoth(st, r) ==
    [total_checked |-> st.total_checked + 1,
     errors_detected |-> st.errors_detected + (IF r.is_error THEN 1 ELSE 0),
     warnings_detected |->
         st.warnings_detected + (IF r.is_warning THEN 1 ELSE 0)]

\* the counters after detect() classified an entry as r
CountDetection(st, r) ==
    [total_checked |-> st.total_checked + 1,
     errors_detected |-> st.errors_detected + (IF r.is_error THEN 1 ELSE 0),
     warnings_detected |->
         st.warnings_detected + (IF ~r.is_error /\ r.is_warning THEN 1 ELSE 0)]

\* detect(entry): the counters, the result, and for an error the call of
\* on_error_detected.  The call is not inside a try: an exception of the
\* callback leaves detect(), which then returns nothing
Detect(e) ==
    /\ stats.total_checked < MaxDetects
    /\ LET r == ResultOf(keywords, e)
       IN /\ stats' = CountDetection(stats, r)
          /\ \E out \in (IF r.is_error THEN CallbackOutcomes ELSE {"return"}) :
                detection' = [entry |-> e, result |-> r,
                              returned |-> out = "return", exc |-> Raised(out),
                              calls |-> detection.calls + 1]
    /\ UNCHANGED keywords
    /\ UNCHANGED outside_detector

\* reset_stats()
ResetStats ==
    /\ stats' = NoStats
    /\ detection' = [detection EXCEPT !.calls = 0]
    /\ UNCHANGED keywords
    /\ UNCHANGED outside_detector

\* ErrorDetector(error_keywords, warning_keywords, on_error_detected)
NewDetector(kws) ==
    /\ keywords' = kws
    /\ stats' = NoStats
    /\ detection' = NoDetection
    /\ UNCHANGED outside_detector

DetectorNext ==
    \/ \E e \in DOMAIN DetectEntries : Detect(e)
    \/ ResetStats
    \/ \E kws \in DetectorConfigs : NewDetector(kws)

\* one ErrorDetector, called by one task
DetectorSpec == Init /\ [][DetectorNext]_vars

(***************************************************************************)
(* LogIngestor.start and LogFileHandler.  Two threads share the handler:   *)
(* the event loop's thread, which runs start() and its read_all(), and the *)
(* Observer thread, which runs on_modified for every modified event.  The  *)
(* handler has no lock, so the threads interleave between any two of its   *)
(* statements.  The file is kept as its lines and a position as the number *)
(* of lines before it; the writer appends whole lines.                     *)
(***************************************************************************)
BlankLine == 0

\* line.strip() is empty
IsBlank(line) == line = BlankLine

\* the lines of the file that are not blank, in file order
NonBlank(lines) == SelectSeq(lines, LAMBDA x : ~IsBlank(x))

\* f.seek(pos); f.readlines()
ReadLinesFrom(pos) == SubSeq(file, pos + 1, Len(file))

\* the writer appends a line: a blank one, or the next line of the log.  An
\* Observer that has been started queues a modified event
WriterAppend ==
    /\ Len(file) < MaxLines
    /\ \E line \in {BlankLine, Len(NonBlank(file)) + 1} :
          file' = Append(file, line)
    /\ events' = IF watching THEN events + 1 ELSE events
    /\ UNCHANGED << last_position, watching, tpc, tlines, tend, emitted >>
    /\ UNCHANGED outside_tailer

\* start(): the file exists (it is created when missing);
\* set_file_path: _last_position = st_size
SetFilePath ==
    /\ tpc.main = "init"
    /\ last_position' = Len(file)
    /\ tpc' = [tpc EXCEPT !.main = "schedule"]
    /\ UNCHANGED << file, watching, events, tlines, tend, emitted >>
    /\ UNCHANGED outside_tailer

\* start(): self._observer.start()
ObserverStart ==
    /\ tpc.main = "schedule"
    /\ watching' = TRUE
    /\ tpc' = [tpc EXCEPT !.main = "read_all"]
    /\ UNCHANGED << file, last_position, events, tlines, tend, emitted >>
    /\ UNCHANGED outside_tailer

\* read_all: lines = f.readlines() from the start of the file
ReadAllRead ==
    /\ tpc.main = "read_all"
    /\ tlines' = [tlines EXCEPT !.main = ReadLinesFrom(0)]
    /\ tend' = [tend EXCEPT !.main = Len(file)]
    /\ tpc' = [tpc EXCEPT !.main = "store"]
    /\ UNCHANGED << file, last_position, watching, events, emitted >>
    /\ UNCHANGED outside_tailer

\* on_modified -> _read_new_lines: f.seek(self._last_position);
\* new_lines = f.readlines()
WatcherRead ==
    /\ tpc.watcher = "idle"
    /\ events > 0
    /\ events' = events - 1
    /\ tlines' = [tlines EXCEPT !.watcher = ReadLinesFrom(last_position)]
    /\ tend' = [tend EXCEPT !.watcher = Len(file)]
    /\ tpc' = [tpc EXCEPT !.watcher = "store"]
    /\ UNCHANGED << file, last_position, watching, emitted >>
    /\ UNCHANGED outside_tailer

\* self._last_position = f.tell(), in read_all and in _read_new_lines
StorePosition(th) ==
    /\ tpc[th] = "store"
    /\ last_position' = tend[th]
    /\ tpc' = [tpc EXCEPT ![th] = "emit"]
    /\ UNCHANGED << file, watching, events, tlines, tend, emitted >>
    /\ UNCHANGED outside_tailer

\* one round of "for line in lines": the callback for a line that is not
\* blank; after the last line read_all returns, or the handler is idle again
EmitLine(th) ==
    /\ tpc[th] = "emit"
    /\ IF tlines[th] = << >>
       THEN /\ tpc' = [tpc EXCEPT ![th] = IF th = "main" THEN "running" ELSE "idle"]
            /\ UNCHANGED << tlines, emitted >>
       ELSE /\ emitted' = IF IsBlank(Head(tlines[th])) THEN emitted
                          ELSE Append(emitted, Head(tlines[th]))
            /\ tlines' = [tlines EXCEPT ![th] = Tail(@)]
            /\ UNCHANGED tpc
    /\ UNCHANGED << file, last_position, watching, events, tend >>
    /\ UNCHANGED outside_tailer

TailerNext ==
    \/ WriterAppend
    \/ SetFilePath
    \/ ObserverStart
    \/ ReadAllRead
    \/ WatcherRead
    \/ \E th \in {"main", "watcher"} : StorePosition(th) \/ EmitLine(th)

\* one LogIngestor started once, and a writer appending to its file
TailerSpec == Init /\ [][TailerNext]_vars

(***************************************************************************)
(* main.py: the dispatch of entries.  The ingestor's callback puts every   *)
(* entry on app_state._log_queue, from the thread that read the line; the  *)
(* process_log_queue task takes the entries and awaits handle_log_entry    *)
(* for each.  An entry is named by its place in the order of emission.     *)
(***************************************************************************)
\* what the dispatch leaves alone of the ingestor
ingestor_vars == << file, last_position, watching, events, tpc, tlines, tend >>

\* faulty variant of GetNowait: the newest entry is taken
GetNowaitNewest(q) == [item |-> q[Len(q)], rest |-> SubSeq(q, 1, Len(q) - 1)]

\* asyncio.Queue.get_nowait: self._queue.popleft()
GetNowait(q) == [item |-> Head(q), rest |-> Tail(q)]

\* asyncio.Queue.put_nowait: self._queue.append(item)
PutNowait(q, item) == Append(q, item)

\* on_log_entry(entry), by read_all or by the Observer thread
OnLogEntry ==
    /\ Len(emitted) < MaxEntries
    /\ LET entry == Len(emitted) + 1
       IN /\ emitted' = Append(emitted, entry)
          /\ log_queue' = PutNowait(log_queue, entry)
    /\ UNCHANGED << is_monitoring, processor, reached >>
    /\ UNCHANGED << ingestor_vars, outside_dispatch >>

\* where process_log_queue is after an await of handle_log_entry ended with
\* out: at the next statement, or back at get() when "except Exception"
\* caught it, or at its end when CancelledError made it break
AfterAwait(out, next) ==
    [pc |-> IF out = "return" THEN next
            ELSE IF ExceptException(out) THEN "get" ELSE "cancelled",
     entry |-> IF out = "return" /\ next # "get" THEN processor.entry ELSE 0]

\* log_entry = await app_state._log_queue.get(), then handle_log_entry up to
\* its first await
ProcessorGet ==
    /\ processor.pc = "get"
    /\ \/ /\ log_queue # << >>
          /\ log_queue' = GetNowait(log_queue).rest
          /\ processor' = [pc |-> "broadcast", entry |-> GetNowait(log_queue).item]
       \/ /\ processor' = AfterAwait("CancelledError", "get")
          /\ UNCHANGED log_queue
    /\ UNCHANGED << emitted, is_monitoring, reached >>
    /\ UNCHANGED << ingestor_vars, outside_dispatch >>

\* handle_log_entry: the broadcast of the entry ends; when monitoring is on,
\* context_engine.add(log_entry) is called
ProcessorBroadcast ==
    /\ processor.pc = "broadcast"
    /\ \E out \in AwaitOutcomes :
          IF out = "return" /\ is_monitoring
          THEN /\ processor' = AfterAwait(out, "add")
               /\ reached' = Append(reached, processor.entry)
          ELSE /\ processor' = AfterAwait(out, "get")
               /\ UNCHANGED reached
    /\ UNCHANGED << emitted, log_queue, is_monitoring >>
    /\ UNCHANGED << ingestor_vars, outside_dispatch >>

\* handle_log_entry: add() ends, then get_context and its broadcast
ProcessorAdd ==
    /\ processor.pc = "add"
    /\ \E out \in AwaitOutcomes : processor' = AfterAwait(out, "context")
    /\ UNCHANGED << emitted, log_queue, is_monitoring, reached >>
    /\ UNCHANGED << ingestor_vars, outside_dispatch >>

\* handle_log_entry: the broadcast of the context ends, then detect() and the
\* broadcast of an error, after which handle_log_entry returns
ProcessorContext ==
    /\ processor.pc = "context"
    /\ \E out \in AwaitOutcomes : processor' = AfterAwait(out, "get")
    /\ UNCHANGED << emitted, log_queue, is_monitoring, reached >>
    /\ UNCHANGED << ingestor_vars, outside_dispatch >>

\* POST /monitor/start
StartMonitoring ==
    /\ ~is_monitoring
    /\ is_monitoring' = TRUE
    /\ UNCHANGED << emitted, log_queue, processor, reached >>
    /\ UNCHANGED << ingestor_vars, outside_dispatch >>

\* POST /monitor/stop
StopMonitoring ==
    /\ is_monitoring
    /\ is_monitoring' = FALSE
    /\ UNCHANGED << emitted, log_queue, processor, reached >>
    /\ UNCHANGED << ingestor_vars, outside_dispatch >>

DispatchNext ==
    \/ OnLogEntry
    \/ ProcessorGet
    \/ ProcessorBroadcast
    \/ ProcessorAdd
    \/ ProcessorContext
    \/ StartMonitoring
    \/ StopMonitoring

\* the ingestor's callback, the task of process_log_queue and the two
\* monitoring endpoints
DispatchSpec == Init /\ [][DispatchNext]_vars

(***************************************************************************)
(* main.py: the startup of the application and the monitoring endpoints.   *)
(* Every LogIngestor.start() makes a new LogFileHandler and a new Observer *)
(* thread; the ingestor keeps the last of each, the earlier threads run on *)
(* with their handlers.  start() runs on the event loop up to its first    *)
(* await without a suspension point, so it is one step here, and so is a   *)
(* handler's _read_new_lines.  An entry on the queue is named by its line. *)
(***************************************************************************)
\* the statements of the three handlers that concern the ingestor, the
\* queue and the monitoring flag leave the rest of these alone
monitor_frame == << last_position, watching, events, tpc, tlines, tend,
                    processor, reached >>

\* on_log_entry for every line that is not blank, in the order read
PutLines(q, lines) == q \o NonBlank(lines)

\* LogIngestor.start() up to its first await: a handler whose position
\* set_file_path and then read_all leave at the end of the file, an Observer
\* started for it, and read_all passing every line of the file to the
\* callback
IngestorStart ==
    /\ Len(watchers) < MaxWatchers
    /\ watchers' = Append(watchers, [last_position |-> Len(file), events |-> 0])
    /\ emitted' = PutLines(emitted, ReadLinesFrom(0))
    /\ log_queue' = PutLines(log_queue, ReadLinesFrom(0))
    /\ UNCHANGED file

\* lifespan, the startup part: context_engine.start(), the task of
\* process_log_queue, and the task of log_ingestor.start()
LifespanStartup ==
    /\ watchers = << >>
    /\ StartFrom(FirstLoop)
    /\ IngestorStart
    /\ UNCHANGED << is_monitoring, monitor_frame, outside_monitor >>

\* POST /monitor/start: nothing when monitoring is on; else the flag is set
\* and a task of log_ingestor.start() is created
PostMonitorStart ==
    /\ watchers # << >>
    /\ ~is_monitoring
    /\ is_monitoring' = TRUE
    /\ IngestorStart
    /\ UNCHANGED << engine_vars, monitor_frame, outside_monitor >>

\* POST /monitor/stop: nothing when monitoring is off; else the flag is
\* reset and context_engine.clear() is awaited; the ingestor is left running
PostMonitorStop ==
    /\ watchers # << >>
    /\ is_monitoring
    /\ is_monitoring' = FALSE
    /\ buffer' = << >>
    /\ error_buffer' = << >>
    /\ added' = << >>
    /\ UNCHANGED << last_flush_time, running, flush_task, locked, waiters, pc,
                    arg, timer, nadds, ncalls, ev >>
    /\ UNCHANGED << file, emitted, log_queue, watchers >>
    /\ UNCHANGED << monitor_frame, outside_monitor >>

\* the writer appends a line to the file: every Observer that runs queues a
\* modified event for its handler
WatchedAppend ==
    /\ Len(file) < MaxLines
    /\ \E line \in {BlankLine, Len(NonBlank(file)) + 1} :
          file' = Append(file, line)
    /\ watchers' = [i \in DOMAIN watchers |->
                       [watchers[i] EXCEPT !.events = @ + 1]]
    /\ UNCHANGED << emitted, log_queue, is_monitoring >>
    /\ UNCHANGED << engine_vars, monitor_frame, outside_monitor >>

\* the Observer thread i dispatches a modified event: on_modified ->
\* _read_new_lines of its handler, from the handler's own position
WatcherDispatch(i) ==
    /\ watchers[i].events > 0
    /\ watchers' = [watchers EXCEPT ![i] = [last_position |-> Len(file),
                                            events |-> @.events - 1]]
    /\ emitted' = PutLines(emitted, ReadLinesFrom(watchers[i].last_position))
    /\ log_queue' = PutLines(log_queue, ReadLinesFrom(watchers[i].last_position))
    /\ UNCHANGED << file, is_monitoring >>
    /\ UNCHANGED << engine_vars, monitor_frame, outside_monitor >>

MonitorNext ==
    \/ LifespanStartup
    \/ PostMonitorStart
    \/ PostMonitorStop
    \/ WatchedAppend
    \/ \E i \in DOMAIN watchers : WatcherDispatch(i)

\* the application from its startup on, the two monitoring endpoints called
\* in any order, and a writer appending to the log file
MonitorSpec == Init /\ [][MonitorNext]_vars

(***************************************************************************)
(* LogIngestor._on_new_line: the line is parsed and the entry handed to    *)
(* the callback; an exception of the parser leaves through the caller.     *)
(***************************************************************************)
OnNewLine(i) ==
    /\ Len(parsed) < MaxParsed
    /\ LET log_entry == ParseOf(i)
       IN  parsed' = Append(parsed,
                       [line |-> i, raised |-> log_entry.raised,
                        delivered |-> IF log_entry.raised = "none"
                                      THEN << log_entry.entry >>
                                      ELSE << >>])
    /\ UNCHANGED outside_parser

ParserNext == \E i \in DOMAIN RosLines : OnNewLine(i)

\* the ingestor's parser given one line after another
ParserSpec == Init /\ [][ParserNext]_vars

(***************************************************************************)
(* Analyzer: the constructor, analyze() and reset_stats().  One task calls *)
(* analyze(); its request to the service is answered within the call.      *)
(***************************************************************************)
NewAnalyzer(api_key, settings_key) ==
    /\ analyzer' = [api_key |-> ConfiguredKey(api_key, settings_key),
                    stats |-> NoAnalyzerStats]
    /\ analysis' = NoAnalysis
    /\ UNCHANGED outside_analyzer

Analyze(logs) ==
    /\ analysis.n < MaxAnalyses
    /\ \E out \in ServiceOutcomes :
          IF logs = << >>
          THEN /\ analysis' = [n |-> analysis.n + 1, logs |-> logs,
                               result |-> NoResult, requests |-> 0]
               /\ UNCHANGED analyzer
          ELSE IF NoApiKey(analyzer.api_key)
          THEN /\ analysis' = [n |-> analysis.n + 1, logs |-> logs,
                               result |-> CreateMockAnalysis(logs),
                               requests |-> 0]
               /\ UNCHANGED analyzer
          ELSE /\ analysis' = [n |-> analysis.n + 1, logs |-> logs,
                               result |-> ServiceResult(logs, out),
                               requests |-> 1]
               /\ analyzer' = [analyzer EXCEPT
                                  !.stats = ServiceStats(analyzer.stats, out)]
    /\ UNCHANGED outside_analyzer

AnalyzerResetStats ==
    /\ analyzer' = [analyzer EXCEPT !.stats = NoAnalyzerStats]
    /\ UNCHANGED analysis
    /\ UNCHANGED outside_analyzer

AnalyzerNext ==
    \/ \E api_key \in ApiKeys, settings_key \in ApiKeys :
          NewAnalyzer(api_key, settings_key)
    \/ \E logs \in AnalyzeLogs : Analyze(logs)
    \/ AnalyzerResetStats

\* Analyzers built with and without a key, called by one task
AnalyzerSpec == Init /\ [][AnalyzerNext]_vars

Next ==
    \/ \E t \in Adders, e \in TwoEntries : AddCall(t, e)
    \/ \E t \in Adders : AddResume1(t) \/ AddResume2(t) \/ CallbackReturn(t)
    \/ \E c \in Clients, op \in ClientOps : ClientCall(c, op)
    \/ \E c \in Clients : ClientResume(c)
    \/ Start
    \/ Stop
    \/ \E l \in Loops : LoopBegin(l) \/ LoopWake(l) \/ LoopResume(l) \/ LoopCancelled(l)
    \/ Tick

Spec == Init /\ [][Next]_vars

\* The event loop runs every task that is ready, timers expire, and the
\* callbacks return.
Fairness ==
    /\ WF_vars(Tick)
    /\ \A l \in Loops :
         WF_vars(LoopBegin(l) \/ LoopWake(l) \/ LoopResume(l) \/ LoopCancelled(l))
    /\ \A t \in Adders :
         WF_vars(AddResume1(t) \/ AddResume2(t) \/ CallbackReturn(t))
    /\ \A c \in Clients : WF_vars(ClientResume(c))

FairSpec == Spec /\ Fairness

\* One task calling add(), and start() and stop() called in any order
LifecycleNext ==
    \/ \E e \in EntryIds : AddCall("a1", e)
    \/ AddResume1("a1") \/ AddResume2("a1") \/ CallbackReturn("a1")
    \/ Restart
    \/ StopObserved
    \/ \E l \in Loops : LoopBegin(l) \/ LoopWake(l) \/ LoopResume(l) \/ LoopCancelled(l)
    \/ Tick

LifecycleSpec == Init /\ [][LifecycleNext]_vars

\* One task calling add(), a client, and an observer of the buffers
SnapshotNext ==
    \/ \E e \in TwoEntries : AddCall("a1", e)
    \/ AddResume1("a1") \/ AddResume2("a1") \/ CallbackReturn("a1")
    \/ \E c \in Clients, op \in ClientOps : ClientCall(c, op)
    \/ \E o \in Observers, op \in ReadOps : ObserverCall(o, op)
    \/ \E c \in Clients \cup Observers : ClientResume(c)
    \/ \E o \in Observers : Keep(o) \/ MutateList(o)

SnapshotSpec == Init /\ [][SnapshotNext]_vars

(***************************************************************************)
(* Properties.                                                             *)
(***************************************************************************)
\* the last n elements of s
LastOf(s, n) == SubSeq(s, Len(s) - n + 1, Len(s))

\* what the rolling buffer holds after the entries in added were appended
Window == LastOf(added, Min(Len(added), WindowSize))

\* C1: in every reachable state the rolling buffer holds at most window_size
\* entries.
C1_BufferBounded == Len(buffer) <= WindowSize

\* an add found the buffer full and the buffer is still full
C1_Witness == Len(added) > WindowSize /\ Len(buffer) = WindowSize

\* C2: after entries were added with no flush or clear in between, the buffer
\* and the list get_context() returns are the last min(n, window_size) of
\* them in arrival order.
C2_FifoWindow ==
    /\ buffer = Window
    /\ ev.op = "get_context" => ev.val = Window

\* get_context() after an overflow that evicted an entry unlike the oldest kept
C2_Witness ==
    /\ ev.op = "get_context"
    /\ Len(added) = WindowSize + 1
    /\ added[1] # added[2]
    /\ ev.val = Tail(added)

\* some step ran flush(): by a client, or by the loop
FlushRan == ev'.op \in {"flush", "on_flush", "loop_flush"}

\* C3: a step that runs flush() returns the buffer as it was before the step,
\* leaves the buffer empty and sets last_flush_time to the present instant.
C3_FlushAtomic ==
    [][FlushRan => /\ ev'.val = buffer
                   /\ buffer' = << >>
                   /\ last_flush_time' = utc_now]_vars

\* a client's flush() returned a full window
C3_Witness ==
    /\ ev.op = "flush"
    /\ Len(ev.val) = WindowSize
    /\ buffer = << >>
    /\ last_flush_time = utc_now

\* C4: the snapshot passed to on_error_context has the triggering entry as
\* its last element, under any interleaving.
C4_TriggerIsLast ==
    ev.op = "on_error_context" =>
        /\ ev.val # << >>
        /\ ev.val[Len(ev.val)] = ev.arg

FlushedOrMoot == ev.op = "on_flush" \/ buffer = << >> \/ ~running

\* C6: if the manager is running, the buffer is not empty and no further
\* entry arrives, the loop eventually flushes and calls on_flush.
C6_StalledSourceFlushed ==
    \A n \in 0..MaxAdds :
        (running /\ buffer # << >> /\ nadds = n) ~> (FlushedOrMoot \/ nadds > n)

\* C7: should_flush returns a boolean in every state: False on an empty
\* buffer, else True exactly when triggered_by_error is set, the buffer is
\* full, or timeout_sec has passed since last_flush_time.
C7_ShouldFlushTotal ==
    ev.op \in {"should_flush_true", "should_flush_false"} =>
        ev.res = BoolStr(/\ buffer # << >>
                         /\ \/ ev.op = "should_flush_true"
                            \/ Len(buffer) >= WindowSize
                            \/ last_flush_time.ago >= TimeoutSec)

\* C8: with no new entries, a non-empty buffer whose timeout has elapsed is
\* flushed by the loop, with one on_flush call, and the loop calls on_flush
\* again only after another entry was added.
C8_FlushOncePerTimeout ==
    /\ \A n \in 0..MaxAdds :
          (/\ running /\ buffer # << >> /\ nadds = n
           /\ last_flush_time.ago >= TimeoutSec)
             ~> (FlushedOrMoot \/ nadds > n)
    /\ [][ev'.op = "on_flush" => (added # << >> /\ added' = << >>)]_vars

\* C9: the lock is not held while an on_error_context callback executes.
C9_CallbackOutsideLock == \A t \in Adders : pc[t] = "cb" => ~locked

\* C10: add(entry) returns True exactly when ErrorDetector.detect classifies
\* the entry as an error, and exactly those adds rebuild the error context.
C10_AddAgreesWithDetector ==
    /\ ev.op = "add" => ev.res = BoolStr(DetectorIsError[ev.arg])
    /\ ev.op = "on_error_context" => DetectorIsError[ev.arg]

\* C11: an exception raised by on_error_context does not leave add(), and an
\* exception raised by on_flush does not end the loop; the buffers, the lock
\* and last_flush_time are what a normal return of the callback leaves.
C11_CallbackFaultContained ==
    [][ev'.exc \in CallbackOutcomes =>
          /\ ev'.op = "add" =>
                /\ ev'.res = "True"
                /\ pc'[ev'.task] = "idle"
                /\ ~locked'
                /\ UNCHANGED << buffer, error_buffer, last_flush_time >>
          /\ ev'.op = "on_flush" =>
                /\ pc'[ev'.task] = (IF running THEN "sleep" ELSE "done")
                /\ buffer' = << >>
                /\ last_flush_time' = utc_now
                /\ UNCHANGED << error_buffer, locked >>]_vars

\* on_flush raised on a full batch and the loop sleeps again
C11_Witness ==
    /\ ev.op = "on_flush"
    /\ ev.exc = "ValueError"
    /\ Len(ev.val) = WindowSize
    /\ pc[ev.task] = "sleep"

\* C12: an exception raised by on_error_detected is swallowed: detect() still
\* returns the classification result of the entry.
C12_DetectSwallowsCallbackFault ==
    detection.exc # "none" => detection.returned

\* C13: the lock is released on every exit path: it is held only while a
\* task is inside a critical section, and when it is free and tasks are
\* queued for it, one of them has been woken or is about to leave the queue.
C13_LockReleased ==
    /\ locked => \E t \in Adders : pc[t] = "cb"
    /\ (~locked /\ waiters # << >>) =>
           \E i \in 1..Len(waiters) : waiters[i].st # "pending"

\* add() was cancelled inside its callback while another task was queued
C13_Witness ==
    /\ ev.op = "add"
    /\ ev.exc = "CancelledError"
    /\ ~locked
    /\ waiters # << >>

\* the loop ran flush() in the step
LoopFlushed == ev'.op \in {"on_flush", "loop_flush"}

\* C14: for any sequence of start() and stop() calls, once stop() was called
\* (and start() was not called again) no loop task flushes or calls on_flush.
C14_NoFlushAfterStop == [][~running => ~LoopFlushed]_vars

\* C15: no way back from Stopped: a start() that follows the stop() of a
\* started manager does not make it running and launches no loop task.
C15_NoRestart ==
    [][(ev.op = "stop" /\ flush_task # NoTask /\ ev'.op = "start") =>
          (~running' /\ flush_task' = flush_task /\ pc' = pc)]_vars

\* the step is a call of stop()
StopRan == ev'.op = "stop"

\* what stop() may change besides the history
lifecycle_vars == << running, flush_task, pc, waiters >>

\* C16: stop() does not raise and leaves the manager not running with the
\* rolling buffer, the error buffer and last_flush_time unchanged; before any
\* start() it changes nothing, and a stop() that follows a stop() changes
\* nothing.
C16_StopIdempotent ==
    [][StopRan =>
          /\ ev'.res \in {"None", "again"}
          /\ ~running'
          /\ UNCHANGED << buffer, error_buffer, last_flush_time, locked >>
          /\ (flush_task = NoTask /\ ~running) => UNCHANGED lifecycle_vars
          /\ ev.op = "stop" => UNCHANGED lifecycle_vars]_vars

\* a second stop() in a row on a started manager that holds entries
C16_Witness ==
    /\ ev.op = "stop"
    /\ ev.res = "again"
    /\ flush_task # NoTask
    /\ buffer # << >>
    /\ error_buffer # << >>

\* C17: the error buffer changes only in an add() of an error entry, in
\* flush_error_context() and in clear(); flush() and the add() of another
\* entry leave it unchanged.
C17_ErrorBufferFrame ==
    [][error_buffer' # error_buffer =>
          \/ ev'.op = "on_error_context" /\ EntryIsError(LogEntries[ev'.arg])
          \/ ev'.op \in {"flush_error_context", "clear"}]_vars

\* a flush() returned entries and left a non-empty error buffer behind
C17_Witness ==
    /\ ev.op \in {"flush", "on_flush"}
    /\ ev.val # << >>
    /\ error_buffer # << >>

\* C18: when clear() returns, the rolling buffer and the error buffer are
\* both empty.
C18_ClearEmptiesBoth ==
    ev.op = "clear" => (buffer = << >> /\ error_buffer = << >>)

\* C19: a list returned by get_context() or get_error_context() is a copy:
\* no step of the engine changes the items of a list an observer keeps, and
\* changing that list changes neither the rolling nor the error buffer.
C19_SnapshotIsCopy ==
    [][/\ ev'.op = "list_mutated" => UNCHANGED << buffer, error_buffer >>
       /\ (held.of # "none" /\ held' = held) => Deref(held)' = Deref(held)]_vars

\* the observer keeps a full window that a later clear() or flush() emptied
C19_Witness ==
    /\ held.of = "buffer"
    /\ Len(held.items) = WindowSize
    /\ ev.op \in {"clear", "flush"}
    /\ buffer = << >>

\* a is an initial part of b
IsPrefix(a, b) == Len(a) <= Len(b) /\ a = SubSeq(b, 1, Len(a))

\* start() has finished its read_all and the Observer has nothing left to do
TailerQuiet == tpc.main = "running" /\ tpc.watcher = "idle" /\ events = 0

\* C20: every non-blank line of the file is passed to the callback once and
\* in file order: what was passed is always an initial part of the file's
\* non-blank lines, and all of them once the tailer has caught up.
C20_ExactlyOnceInOrder ==
    /\ IsPrefix(emitted, NonBlank(file))
    /\ TailerQuiet => emitted = NonBlank(file)

\* a is b with some of its elements left out
RECURSIVE IsSubsequence(_, _)
IsSubsequence(a, b) ==
    IF a = << >> THEN TRUE
    ELSE IF b = << >> THEN FALSE
    ELSE IF Head(a) = Head(b) THEN IsSubsequence(Tail(a), Tail(b))
    ELSE IsSubsequence(a, Tail(b))

\* C21: the entries add() is called with are entries the callback was given,
\* in the order in which it was given them; and while the processing task
\* handles an entry, add() included, every entry emitted after that one is
\* still on the queue: the task takes the next only after it finished.
C21_DispatchInOrder ==
    /\ IsSubsequence(reached, emitted)
    /\ processor.pc \in {"broadcast", "add", "context"} =>
          log_queue = SubSeq(emitted, processor.entry + 1, Len(emitted))

\* an add() in progress for the second entry that reached the engine, with a
\* later entry waiting on the queue
C21_Witness ==
    /\ processor.pc = "add"
    /\ Len(reached) >= 2
    /\ log_queue # << >>

\* the priority of the tiers, highest first
TierPriority == << "critical", "high", "medium", "low" >>

\* the place of a severity in the priority
Rank(severity) == CHOOSE i \in DOMAIN TierPriority : TierPriority[i] = severity

\* the tiers that have a pattern matching the text of each entry
TiersMatching ==
    {[entry |-> i,
      tiers |-> {SEVERITY_RULES[k].severity : k \in
                    {j \in DOMAIN SEVERITY_RULES :
                        AnyPattern(SEVERITY_RULES[j].patterns,
                                   DetectText(DetectEntries[i]))}}] :
        i \in DOMAIN DetectEntries}

TiersOf(i) == (CHOOSE t \in TiersMatching : t.entry = i).tiers

\* C22: when patterns of some tiers match the text of the entry detect() was
\* given, the severity of the result is one of those tiers and no matching
\* tier has a higher priority.
C22_HighestTierWins ==
    (detection.entry # 0 /\ TiersOf(detection.entry) # {}) =>
        /\ detection.result.severity \in TiersOf(detection.entry)
        /\ \A s \in TiersOf(detection.entry) :
              Rank(detection.result.severity) <= Rank(s)

\* detect() classified an entry whose text matches patterns of two tiers
C22_Witness ==
    /\ detection.entry # 0
    /\ Cardinality(TiersOf(detection.entry)) >= 2
    /\ detection.result.severity = "critical"

\* the entry the last detect() was given, and its text
Detected == DetectEntries[detection.entry]
DetectedText == DetectText(Detected)

\* the keyword occurs in the text, letter case aside
KeywordMatches(kw, text) == FindFrom(Lower(text), Lower(kw), 1) # 0

\* some keyword of the list occurs in the text
SomeKeywordMatches(kws, text) ==
    \E k \in DOMAIN kws : KeywordMatches(kws[k], text)

\* C23: is_error of the result is true exactly when the level of the entry
\* is ERROR, FATAL or CRITICAL in any letter case, or the severity is
\* critical or high, or a custom error keyword of the detector matches.
C23_IsErrorRule ==
    detection.entry # 0 =>
        (detection.result.is_error <=>
            \/ Upper(Detected.level) \in {"ERROR", "FATAL", "CRITICAL"}
            \/ detection.result.severity \in {"critical", "high"}
            \/ SomeKeywordMatches(keywords.error_keywords, DetectedText))

\* an entry that is an error by a custom keyword alone
C23_Witness ==
    /\ detection.entry # 0
    /\ detection.result.is_error
    /\ Upper(Detected.level) = "WARN"
    /\ detection.result.severity = "medium"

\* C24: is_warning of the result is true exactly when the level of the entry
\* is WARN, or the severity is medium, or a custom warning keyword matches;
\* a WARN entry whose text matches no critical or high pattern has severity
\* medium and is a warning.
C24_IsWarningRule ==
    detection.entry # 0 =>
        /\ detection.result.is_warning <=>
              \/ Upper(Detected.level) = "WARN"
              \/ detection.result.severity = "medium"
              \/ SomeKeywordMatches(keywords.warning_keywords, DetectedText)
        /\ (/\ Upper(Detected.level) = "WARN"
            /\ TiersOf(detection.entry) \cap {"critical", "high"} = {}) =>
              (detection.result.severity = "medium" /\ detection.result.is_warning)

\* a detector without custom keywords classified a WARN entry of severity
\* high: a warning by its level alone
C24_Witness ==
    /\ detection.entry # 0
    /\ keywords = NoKeywords
    /\ Upper(Detected.level) = "WARN"
    /\ detection.result.severity = "high"
    /\ detection.result.is_warning

\* the categories of the error type table, in table order
TypeOrder ==
    << "Transform Timeout", "Planning Failure", "Sensor Timeout",
       "Hardware Connection", "Joint Limit", "Collision Detected",
       "Navigation Failure", "Controller Error", "SLAM Error" >>

\* the categories that have a pattern matching the text of each entry
TypesMatching ==
    {[entry |-> i,
      types |-> {ERROR_TYPES[k].error_type : k \in
                    {j \in DOMAIN ERROR_TYPES :
                        AnyPattern(ERROR_TYPES[j].patterns,
                                   DetectText(DetectEntries[i]))}}] :
        i \in DOMAIN DetectEntries}

TypesOf(i) == (CHOOSE t \in TypesMatching : t.entry = i).types

\* C25: error_type of a result is set exactly when is_error is true, and it
\* is "Unknown Error" when is_error is true and no pattern of the error type
\* table matches the text.
C25_ErrorTypeIffError ==
    detection.entry # 0 =>
        /\ detection.result.error_type # "None" <=> detection.result.is_error
        /\ (detection.result.is_error /\ TypesOf(detection.entry) = {}) =>
              detection.result.error_type = "Unknown Error"

\* an error whose text matches no pattern of the error type table
C25_Witness ==
    /\ detection.entry # 0
    /\ detection.result.is_error
    /\ TypesOf(detection.entry) = {}
    /\ detection.result.error_type = "Unknown Error"

\* the place of a category in the table order
TypeRank(type) == CHOOSE i \in DOMAIN TypeOrder : TypeOrder[i] = type

\* C26: when is_error is true and patterns of some categories match the
\* text, error_type is the matching category that comes first in the order
\* of the table.
C26_FirstCategoryWins ==
    (/\ detection.entry # 0
     /\ detection.result.is_error
     /\ TypesOf(detection.entry) # {}) =>
        /\ detection.result.error_type \in TypesOf(detection.entry)
        /\ \A type \in TypesOf(detection.entry) :
              TypeRank(detection.result.error_type) <= TypeRank(type)

\* an error whose text matches patterns of three categories
C26_Witness ==
    /\ detection.entry # 0
    /\ detection.result.is_error
    /\ Cardinality(TypesOf(detection.entry)) >= 3
    /\ detection.result.error_type = "Transform Timeout"

\* the custom keywords of the list that occur in the text
KeywordsMatching(kws, text) ==
    {kws[k] : k \in {j \in DOMAIN kws : KeywordMatches(kws[j], text)}}

\* C27: matched_keywords holds the level string of an ERROR, FATAL or
\* CRITICAL entry and every custom error keyword and custom warning keyword
\* that matches the text; it is not empty for an error-level entry.
C27_MatchedKeywordsComplete ==
    detection.entry # 0 =>
        /\ Upper(Detected.level) \in {"ERROR", "FATAL", "CRITICAL"} =>
              Detected.level \in detection.result.matched_keywords
        /\ KeywordsMatching(keywords.error_keywords, DetectedText)
              \subseteq detection.result.matched_keywords
        /\ KeywordsMatching(keywords.warning_keywords, DetectedText)
              \subseteq detection.result.matched_keywords
        /\ Upper(Detected.level) \in {"ERROR", "FATAL", "CRITICAL"} =>
              detection.result.matched_keywords # {}

\* C28: every step of the detector either is a reset, after which the three
\* counters are zero, or is a detect(), which adds one to total_checked and
\* lowers no counter; total_checked is the number of detect() calls since
\* the last reset.
C28_StatsMonotonic ==
    [][/\ stats'.total_checked = detection'.calls
       /\ \/ detection'.calls = 0 /\ stats' = NoStats
          \/ /\ detection'.calls = detection.calls + 1
             /\ stats'.total_checked = stats.total_checked + 1
             /\ stats'.errors_detected >= stats.errors_detected
             /\ stats'.warnings_detected >= stats.warnings_detected]_vars

\* reset_stats() was called after detect() calls
C28_Witness ==
    /\ detection.entry # 0
    /\ detection.calls = 0
    /\ stats = NoStats

\* C29: an entry whose level is none of ERROR, FATAL, CRITICAL, WARN and
\* whose text matches no severity pattern and no custom keyword is neither
\* an error nor a warning, has severity low and no error type.
C29_PlainEntryIsLow ==
    (/\ detection.entry # 0
     /\ Upper(Detected.level) \notin {"ERROR", "FATAL", "CRITICAL", "WARN"}
     /\ TiersOf(detection.entry) = {}
     /\ ~SomeKeywordMatches(keywords.error_keywords, DetectedText)
     /\ ~SomeKeywordMatches(keywords.warning_keywords, DetectedText)) =>
        /\ ~detection.result.is_error
        /\ ~detection.result.is_warning
        /\ detection.result.severity = "low"
        /\ detection.result.error_type = "None"

\* detect() classified an INFO entry that matches nothing
C29_Witness ==
    /\ detection.entry # 0
    /\ Detected.level = "INFO"
    /\ TiersOf(detection.entry) = {}
    /\ ~SomeKeywordMatches(keywords.warning_keywords, DetectedText)
    /\ detection.result.severity = "low"
    /\ detection.returned

\* the lines of the full form whose bracketed time is no date and time of
\* the two formats: month 13, 29 February 2023, a fraction of seven digits,
\* second 60, year 0, hour 24, 31 April
UnparseableStamps == {3, 4, 5, 6, 7, 27, 28}

\* the lines of neither form: no brackets, empty, blank, a level alone, an
\* empty second group, no message, a level that is no word, a leading
\* blank, an empty node group, two node groups, no colon
UnrecognizedShapes == {12, 13, 14, 15, 16, 17, 19, 20, 24, 25, 26}

FallbackEntry(text) == ParsedEntry(DatetimeNow, "INFO", "unknown", text, text)

\* C30: whatever the line, the parser raises nothing and hands exactly one
\* entry to the callback; a line whose timestamp cannot be parsed gets the
\* current time, and a line of no recognized shape gets the fallback entry
\* (level INFO, node unknown, the whole line as message).
C30_ParsingTotal ==
    \A k \in DOMAIN parsed :
        /\ parsed[k].raised = "none"
        /\ Len(parsed[k].delivered) = 1
        /\ parsed[k].line \in UnparseableStamps
               => parsed[k].delivered[1].timestamp = DatetimeNow
        /\ parsed[k].line \in UnrecognizedShapes
               => parsed[k].delivered[1] = FallbackEntry(RosLines[parsed[k].line])

C30_Witness ==
    /\ \E k \in DOMAIN parsed :
          /\ parsed[k].line \in UnparseableStamps
          /\ Len(parsed[k].delivered) = 1
          /\ parsed[k].delivered[1].timestamp.now
    /\ \E k \in DOMAIN parsed :
          /\ parsed[k].line \in UnrecognizedShapes
          /\ Len(parsed[k].delivered) = 1
          /\ parsed[k].delivered[1].level = "INFO"

\* the lines of the full form, with what each one says: level, timestamp,
\* node group and message; lines 9 and 29 have no fractional seconds, lines
\* 2 and 9 no node group
FullFormLines ==
    {[line |-> 1, level |-> "ERROR", node |-> "/move_base",
      message |-> "Transform timeout",
      timestamp |-> Datetime(2024, 1, 15, 10, 30, 45, 123456)],
     [line |-> 2, level |-> "WARN", node |-> "unknown",
      message |-> "Battery low",
      timestamp |-> Datetime(2024, 1, 15, 10, 30, 45, 500000)],
     [line |-> 9, level |-> "WARN", node |-> "unknown",
      message |-> "No fraction",
      timestamp |-> Datetime(2024, 1, 15, 10, 30, 45, 0)],
     [line |-> 23, level |-> "FATAL", node |-> "/hw",
      message |-> "Emergency stop: now",
      timestamp |-> Datetime(2024, 2, 29, 23, 59, 59, 999999)],
     [line |-> 29, level |-> "ERROR", node |-> "/move_base",
      message |-> "Transform timeout",
      timestamp |-> Datetime(2024, 1, 15, 10, 30, 45, 0)]}

\* C31: a line of the full form, with or without fractional seconds and
\* with or without the node group, parses to its level in upper case, its
\* node (unknown without the group), its message and the written timestamp.
C31_FullFormParsed ==
    \A k \in DOMAIN parsed : \A f \in FullFormLines :
        parsed[k].line = f.line
            => parsed[k].delivered =
                   << ParsedEntry(f.timestamp, f.level, f.node, f.message,
                                  RosLines[f.line]) >>

\* C32: a line of neither bracketed form parses to level INFO, node unknown
\* and the whole line as message; and whatever the form of the line, the
\* entry keeps the line unmodified in raw_line and its level is upper case.
C32_FallbackAndRawLine ==
    \A k \in DOMAIN parsed : \A e \in {parsed[k].delivered[j] :
                                         j \in DOMAIN parsed[k].delivered} :
        /\ e.raw_line = RosLines[parsed[k].line]
        /\ e.level = Upper(e.level)
        /\ parsed[k].line \in UnrecognizedShapes
               => /\ e.level = "INFO"
                  /\ e.node = "unknown"
                  /\ e.message = RosLines[parsed[k].line]

\* a line written with a lower-case level and a line of neither form
C32_Witness ==
    /\ \E k \in DOMAIN parsed :
          /\ RosLines[parsed[k].line] = "[warn] [2024-01-15 10:30:45.5]: Battery low"
          /\ parsed[k].delivered # << >>
          /\ parsed[k].delivered[1].level = "WARN"
    /\ \E k \in DOMAIN parsed :
          /\ RosLines[parsed[k].line] = "garbage text with no brackets"
          /\ parsed[k].delivered # << >>
          /\ parsed[k].delivered[1].message = "garbage text with no brackets"

\* C33: analyze() returns nothing for an empty list, and without an API key
\* it returns for a non-empty list a mock result (mock flag set, at least
\* one corrective action) without a request to the service; in both cases
\* the three counters of the statistics are left as they were.
C33_MockWithoutKey ==
    [][(analysis'.n = analysis.n + 1
            /\ (analysis'.logs = << >> \/ analyzer.api_key = ""))
       => /\ analysis'.requests = 0
          /\ analyzer'.stats = analyzer.stats
          /\ IF analysis'.logs = << >>
             THEN analysis'.result.returned = "None"
             ELSE /\ analysis'.result.returned = "AnalysisResult"
                  /\ analysis'.result.mock
                  /\ Len(analysis'.result.corrective_actions) >= 1]_vars

\* a mock result for a non-empty list after an empty call, with no key
C33_Witness ==
    /\ analyzer.api_key = ""
    /\ analysis.n >= 1
    /\ analysis.logs # << >>
    /\ analysis.result.mock
    /\ analysis.requests = 0
    /\ analyzer.stats = NoAnalyzerStats

\* C34: under any interleaving of add(), flush() and the loop, a flush
\* returns exactly the entries appended since the buffer was last emptied
\* that overflow did not evict, and leaves none of them behind to be returned
\* again; a step that is no flush and no clear() keeps every such entry in
\* the buffer, adding at most one at its end.
C34_FlushConserves ==
    [][/\ FlushRan => (ev'.val = Window /\ buffer' = << >> /\ added' = << >>)
       /\ buffer' = Window'
       /\ (~FlushRan /\ added' # added) =>
             \/ \E e \in EntryIds :
                   /\ added' = Append(added, e)
                   /\ buffer' = DequeOf(Append(buffer, e), WindowSize)
             \/ /\ added' = << >>
                /\ ev'.op = "clear" \/ \E c \in Clients : pc'[c] = "clear2"]_vars

\* the loop flushed a full window that entries of both adders had filled
\* after an overflow, and nothing of it is left in the buffer
C34_Witness ==
    /\ ev.op = "on_flush"
    /\ Len(ev.val) = WindowSize
    /\ nadds > WindowSize
    /\ buffer = << >>
    /\ added = << >>

\* C35: on_flush is never called with an empty batch; a loop whose flush()
\* finds the buffer emptied since its should_flush() skips the callback.
C35_NoEmptyBatch == ev.op = "on_flush" => ev.val # << >>

\* the loop's flush() returned nothing: the buffer was emptied by another
\* task after the loop's should_flush() had answered True
C35_Witness ==
    /\ ev.op = "loop_flush"
    /\ ev.val = << >>
    /\ ev.task \in Loops
    /\ nadds >= WindowSize
    /\ buffer = << >>

\* the loop tasks that were created and have neither ended nor been cancelled
AliveLoops == {l \in Loops : pc[l] \in {"created", "sleep", "should_flush", "flush"}}

\* C36: for any sequence of start() and stop() calls at most one loop task
\* of the manager is alive, and none is once stop() was called.
C36_OneLoopAlive ==
    /\ Cardinality(AliveLoops) <= 1
    /\ ~running => AliveLoops = {}

\* C37: whatever the order of the startup and the POST /monitor/start and
\* POST /monitor/stop requests, at most one Observer watches the log file
\* and no line of the file is put on the queue twice.
C37_OneWatcherNoReplay ==
    /\ Len(watchers) <= 1
    /\ \A i, j \in DOMAIN emitted : emitted[i] = emitted[j] => i = j

\* C38: the severity is never lower than the default of the level: an
\* ERROR entry gets critical or high, a FATAL or CRITICAL entry critical, a
\* WARN entry never low; and when no pattern matches the text, so that the
\* default of the level decides, the severity is low.
C38_SeverityAtLeastLevel ==
    detection.entry # 0 =>
        /\ Upper(Detected.level) = "ERROR" =>
              detection.result.severity \in {"critical", "high"}
        /\ Upper(Detected.level) \in {"FATAL", "CRITICAL"} =>
              detection.result.severity = "critical"
        /\ Upper(Detected.level) = "WARN" => detection.result.severity # "low"
        /\ TiersOf(detection.entry) = {} => detection.result.severity = "low"

\* an ERROR entry whose node and message match no pattern: the level in
\* the text alone makes it high
C38_Witness ==
    /\ detection.entry # 0
    /\ Detected.level = "ERROR"
    /\ Detected.message = "Joint state published"
    /\ detection.result.severity = "high"
    /\ TiersOf(detection.entry) = {"high"}

\* C39: errors_detected + warnings_detected never exceeds total_checked;
\* a detect() adds one to at most one of the two counters, and for an entry
\* that is both an error and a warning to errors_detected alone.
C39_OneCounterPerDetect ==
    [][/\ stats'.errors_detected + stats'.warnings_detected
             <= stats'.total_checked
       /\ detection'.calls = detection.calls + 1 =>
             /\ (stats'.errors_detected - stats.errors_detected)
                   + (stats'.warnings_detected - stats.warnings_detected)
                   \in {0, 1}
             /\ (detection'.result.is_error /\ detection'.result.is_warning) =>
                   /\ stats'.errors_detected = stats.errors_detected + 1
                   /\ stats'.warnings_detected = stats.warnings_detected]_vars

\* after a plain warning was counted, an entry that is both an error and
\* a warning was counted as an error only
C39_Witness ==
    /\ detection.entry # 0
    /\ detection.result.is_error
    /\ detection.result.is_warning
    /\ stats.warnings_detected = 1
    /\ stats.errors_detected = 1
    /\ stats.total_checked = 2

====
